---- MODULE Spec2Model ----
(***************************************************************************)
(* The synchronisation engine of the dashboard: GitHubDataPipeline          *)
(* (src/src/data_pipeline.py) over DatabaseManager (src/src/database.py)    *)
(* and fetch_api (src/src/github_client.py).                                *)
(*                                                                          *)
(* A sync run is a sequence of phases; each phase is one action (one        *)
(* fetch_api call, or one per stored pull request, and the loop over what   *)
(* it returned).  Between two phases the remote repository may change and   *)
(* the wall clock may advance.                                              *)
(*                                                                          *)
(* Timestamps are strings in the program.  A string is modelled as          *)
(* <<second, suffix>>: suffix 1 is the trailing "Z" of the remote's         *)
(* "YYYY-MM-DDTHH:MM:SSZ", suffix 0 is datetime.isoformat() of a whole      *)
(* second.  Python's string order on them is the lexicographic one.         *)
(***************************************************************************)
EXTENDS Integers, Sequences, FiniteSets, TLC

\* ---- bounds ----
MaxPR == 2
MaxEvents == 2
MaxUpserts == 3
\* pieces of a text, and labels of a record, at most
MaxWords == 2
\* pages of a list endpoint, at most
MaxPages == 2

\* ---- program constants ----
DefaultTime == 0
SeedTime == 1
\* records per page of a list reply (per_page=100 in the endpoints), scaled down
PerPage == 1

StartTime == SeedTime + 1
PRNumbers == 1..MaxPR
Times == DefaultTime..(StartTime + MaxEvents)

VARIABLES
    now,                \* wall clock, datetime.utcnow()
    remote_prs,         \* the remote's pull requests: number -> [updated_at]
    remote_issues,      \* the remote's plain issues: number -> [updated_at]
    pull_requests,      \* table pull_requests: number -> row
    issues,             \* table issues: number -> row
    reviews,            \* table reviews: id -> row
    comments,           \* table comments: id -> row
    releases,           \* table releases: tag_name -> row
    metadata,           \* table metadata: key -> value
    pc,                 \* position of the sync run
    last_inc,           \* sync_incremental: the cutoff string
    pr_data,            \* what the last pull-request list fetch returned
    processed,          \* numbers handed to upsert by the pull-request phase
    updated_pr_numbers, \* sync_incremental: the touched list
    counts,             \* the counts of the phases that have returned
    requested,          \* the requests issued by the run so far
    changes,            \* changes made on the remote so far
    faults,             \* failed requests, failed upserts and malformed records so far
    quiet,              \* the remote's pull requests are as they were when the
                        \* current (or last) run started
    injected,           \* what went wrong in the phase that ran last
    applied             \* the upsert call made last, and what it left

vars == <<now, remote_prs, remote_issues, pull_requests, issues, reviews, comments,
          releases, metadata, pc, last_inc, pr_data, processed, updated_pr_numbers,
          counts, requested, changes, faults, quiet, injected, applied>>
\* clock ticks, remote changes and faults so far
Events == (now - StartTime) + changes + faults
github == <<remote_prs, remote_issues>>
tables == <<pull_requests, issues, reviews, comments, releases>>
locals == <<last_inc, pr_data, processed, updated_pr_numbers>>

\* ---- timestamps as strings ----
GitHubTime(t) == <<t, 1>>
IsoFormat(t) == <<t, 0>>
FromIsoFormat(s) == s[1]
\* a stored string that datetime.fromisoformat rejects with ValueError
Unparsable == <<0, 2>>
Parsable(s) == s[2] = 0
StrLeq(a, b) == a[1] < b[1] \/ (a[1] = b[1] /\ a[2] <= b[2])
StrGt(a, b) == ~StrLeq(a, b)
Max(a, b) == IF a >= b THEN a ELSE b

\* ---- sequences ----
Range(s) == {s[i] : i \in 1..Len(s)}
Numbers(recs) == {recs[i].number : i \in 1..Len(recs)}

\* ---- the remote (GitHub REST API) ----
IssueNumber == MaxPR + 1
Null == <<>>
ReleaseTag == 1
Shapes == {"ok", "bad"}

\* fetch_api: None on a transport error or a non-2xx status, else the data
None == [ok |-> FALSE, data |-> <<>>]
\* (mutation of fetch_api: an error is swallowed and the payload handed on)
fetch_api_swallow(ok, data) == [ok |-> TRUE, data |-> data]
fetch_api(ok, data) == IF ok THEN [ok |-> TRUE, data |-> data] ELSE None
Falsy(res) == ~res.ok \/ res.data = <<>>

\* fetch_api, lines 18-30: a list comes in pages of per_page records; the
\* request for the endpoint returns page 1 and every 'next' link is followed
\* until a reply carries none, before anything is returned. A failing
\* request (some page) ends the fetch: the requests up to it were issued.
Pages(feed) == IF feed = <<>> THEN 1 ELSE (Len(feed) + PerPage - 1) \div PerPage
PageOf(i) == (i + PerPage - 1) \div PerPage
PageRequests(endpoint, ok, feed) ==
    {{<<endpoint, k>> : k \in 1..last} :
        last \in IF ok THEN {Pages(feed)} ELSE 1..Pages(feed)}

\* one raw record of pulls?state=all&sort=updated&direction=desc; a record
\* of shape "bad" has a null where normalisation subscripts it (user)
RawPR(remote, n, bad) ==
    [id |-> n, number |-> n, updated_at |-> GitHubTime(remote[n].updated_at),
     state |-> remote[n].state, merged_at |-> remote[n].merged_at,
     additions |-> "null", shape |-> IF n \in bad THEN "bad" ELSE "ok"]

\* the most recently updated number of S (ties: the larger number first)
Newest(remote, S) ==
    CHOOSE x \in S : \A y \in S :
        \/ remote[y].updated_at < remote[x].updated_at
        \/ (remote[y].updated_at = remote[x].updated_at /\ y <= x)

\* sort=updated&direction=desc
RECURSIVE SortedDesc(_, _)
SortedDesc(remote, S) ==
    IF S = {} THEN <<>>
    ELSE LET n == Newest(remote, S)
         IN <<n>> \o SortedDesc(remote, S \ {n})

PullsFeed(remote, bad) ==
    LET order == SortedDesc(remote, DOMAIN remote)
    IN [i \in 1..Len(order) |-> RawPR(remote, order[i], bad)]

\* pulls/{number}: the detail payload carries the statistics
PullDetail(remote, n, bad) == [RawPR(remote, n, bad) EXCEPT !.additions = "num"]

\* ---- DatabaseManager ----
Put(table, k, row) ==
    [x \in (DOMAIN table) \cup {k} |-> IF x = k THEN row ELSE table[x]]

\* (mutation of InsertOrReplace: INSERT OR IGNORE, a row in conflict stays)
InsertOrReplace_ignore(table, k, row) ==
    IF k \in DOMAIN table \/ \E x \in DOMAIN table : table[x].id = row.id
    THEN table ELSE Put(table, k, row)
\* INSERT OR REPLACE into a table with id PRIMARY KEY and (where the schema
\* has one) a UNIQUE natural key k: every row in conflict with the new one
\* on either is deleted, then the new row is inserted
InsertOrReplace(table, k, row) ==
    LET kept == {x \in DOMAIN table : x # k /\ table[x].id # row.id}
    IN [x \in kept \cup {k} |-> IF x = k THEN row ELSE table[x]]

\* each upsert returns the table and True, or False when the statement failed
upsert_pull_request(table, rec, t, fails) ==
    IF fails THEN [db |-> table, ret |-> FALSE]
    ELSE [db |-> InsertOrReplace(table, rec.number,
                     [id |-> rec.id, updated_at |-> rec.updated_at,
                      state |-> rec.state, merged_at |-> rec.merged_at,
                      additions |-> rec.additions,
                      last_fetched_at |-> IsoFormat(t)]),
          ret |-> TRUE]

\* get_pull_requests: the rows as dictionaries
get_pull_requests(table) ==
    {[id |-> table[n].id, number |-> n, updated_at |-> table[n].updated_at,
      state |-> table[n].state, merged_at |-> table[n].merged_at,
      additions |-> table[n].additions,
      last_fetched_at |-> table[n].last_fetched_at] : n \in DOMAIN table}

get_metadata(meta, key) == IF key \in DOMAIN meta THEN meta[key] ELSE <<>>
set_metadata(meta, key, value) == Put(meta, key, value)
SyncKey(sync_type) ==
    CASE sync_type = "pr" -> "last_pr_sync"
      [] sync_type = "issue" -> "last_issue_sync"
      [] sync_type = "full" -> "last_full_sync"
      [] sync_type = "incremental" -> "last_incremental_sync"
get_last_sync_time(meta, sync_type) == get_metadata(meta, SyncKey(sync_type))
\* (mutation of update_last_sync_time: every kind writes the row of 'full')
update_last_sync_time_one_row(meta, sync_type, t) ==
    set_metadata(meta, "last_full_sync", IsoFormat(t))
\* (mutation of update_last_sync_time: the default sentinel is written, not now)
update_last_sync_time_default(meta, sync_type, t) ==
    set_metadata(meta, SyncKey(sync_type), IsoFormat(DefaultTime))
update_last_sync_time(meta, sync_type, t) ==
    set_metadata(meta, SyncKey(sync_type), IsoFormat(t))

\* _initialize_metadata: INSERT OR IGNORE of the default rows
Str(n) == <<n>>
DefaultMetadata ==
    [k \in {"last_pr_sync", "last_issue_sync", "last_full_sync",
            "total_prs_tracked", "total_issues_tracked"} |->
        IF k \in {"total_prs_tracked", "total_issues_tracked"}
        THEN Str(0) ELSE IsoFormat(SeedTime)]
\* (mutation of initialize_metadata: INSERT OR REPLACE of the default rows)
initialize_metadata_replace(meta) ==
    [k \in (DOMAIN meta) \cup (DOMAIN DefaultMetadata) |->
        IF k \in DOMAIN DefaultMetadata THEN DefaultMetadata[k] ELSE meta[k]]
initialize_metadata(meta) ==
    [k \in (DOMAIN meta) \cup (DOMAIN DefaultMetadata) |->
        IF k \in DOMAIN meta THEN meta[k] ELSE DefaultMetadata[k]]

\* ---- GitHubDataPipeline: normalisation and the pull-request loops ----
\* (mutation of _process_pull_request: the raw state is stored as it comes)
_process_pull_request_raw_state(pr) ==
    [id |-> pr.id, number |-> pr.number, updated_at |-> pr.updated_at,
     state |-> pr.state, merged_at |-> pr.merged_at, additions |-> pr.additions]
_process_pull_request(pr) ==
    [id |-> pr.id, number |-> pr.number, updated_at |-> pr.updated_at,
     state |-> IF pr.merged_at # Null THEN "merged" ELSE pr.state,
     merged_at |-> pr.merged_at, additions |-> pr.additions]
Raises(raw) == raw.shape = "bad"

\* (mutation of StorePullRequests: the first failed upsert ends the loop)
RECURSIVE StorePullRequests_abort(_, _, _, _)
StorePullRequests_abort(recs, fail, table, t) ==
    IF recs = <<>> THEN [db |-> table, count |-> 0, raised |-> FALSE, done |-> {}]
    ELSE LET pr == Head(recs)
         IN IF Raises(pr)
            THEN [db |-> table, count |-> 0, raised |-> TRUE, done |-> {}]
            ELSE LET u == upsert_pull_request(table, _process_pull_request(pr), t,
                                              pr.number \in fail)
                     rest == IF u.ret
                             THEN StorePullRequests_abort(Tail(recs), fail, u.db, t)
                             ELSE [db |-> u.db, count |-> 0, raised |-> FALSE,
                                   done |-> {}]
                 IN [db |-> rest.db,
                     count |-> rest.count + (IF u.ret THEN 1 ELSE 0),
                     raised |-> rest.raised,
                     done |-> {pr.number} \cup rest.done]

\* the loop of fetch_and_store_pull_requests (lines 32-35): a record whose
\* normalisation raises ends the loop with the exception
RECURSIVE StorePullRequests(_, _, _, _)
StorePullRequests(recs, fail, table, t) ==
    IF recs = <<>> THEN [db |-> table, count |-> 0, raised |-> FALSE, done |-> {}]
    ELSE LET pr == Head(recs)
         IN IF Raises(pr)
            THEN [db |-> table, count |-> 0, raised |-> TRUE, done |-> {}]
            ELSE LET u == upsert_pull_request(table, _process_pull_request(pr), t,
                                              pr.number \in fail)
                     rest == StorePullRequests(Tail(recs), fail, u.db, t)
                 IN [db |-> rest.db,
                     count |-> rest.count + (IF u.ret THEN 1 ELSE 0),
                     raised |-> rest.raised,
                     done |-> {pr.number} \cup rest.done]

\* (mutation of TakeSince: the cutoff test comes after the record is handled)
RECURSIVE TakeSince_break_late(_, _)
TakeSince_break_late(recs, since_iso) ==
    IF recs = <<>> THEN <<>>
    ELSE IF since_iso # <<>> /\ StrLeq(Head(recs).updated_at, since_iso)
         THEN <<Head(recs)>>
         ELSE <<Head(recs)>> \o TakeSince_break_late(Tail(recs), since_iso)

\* the records the loop of fetch_and_store_pull_requests_since reaches before
\* its break (line 52-53)
RECURSIVE TakeSince(_, _)
TakeSince(recs, since_iso) ==
    IF recs = <<>> THEN <<>>
    ELSE IF since_iso # <<>> /\ StrLeq(Head(recs).updated_at, since_iso)
         THEN <<>>
         ELSE <<Head(recs)>> \o TakeSince(Tail(recs), since_iso)

\* the loop of sync_incremental (lines 364-368)
RECURSIVE TouchedNumbers(_, _)
TouchedNumbers(recs, cutoff) ==
    IF recs = <<>> THEN <<>>
    ELSE IF cutoff = <<>> \/ StrGt(Head(recs).updated_at, cutoff)
         THEN <<Head(recs).number>> \o TouchedNumbers(Tail(recs), cutoff)
         ELSE <<>>

\* ---- the other resources of the remote ----
\* issues?state=all...: the tracker's items, pull requests among them (those
\* carry the key 'pull_request'); with &since= only items updated at or after it
TrackerItems(prs, iss) ==
    [n \in (DOMAIN prs) \cup (DOMAIN iss) |->
        IF n \in DOMAIN prs THEN prs[n] ELSE iss[n]]
IssuesFeed(prs, iss, since_iso, bad) ==
    LET items == TrackerItems(prs, iss)
        S == {n \in DOMAIN items :
                since_iso = <<>> \/ items[n].updated_at >= FromIsoFormat(since_iso)}
        order == SortedDesc(items, S)
    IN [i \in 1..Len(order) |->
          [id |-> order[i], number |-> order[i],
           updated_at |-> GitHubTime(items[order[i]].updated_at),
           pull_request |-> order[i] \in DOMAIN prs,
           shape |-> IF order[i] \in bad THEN "bad" ELSE "ok"]]

\* pulls/{number}/reviews: every pull request has one review, of the same id
ReviewsOf(n, bad) == <<[id |-> n, shape |-> IF n \in bad THEN "bad" ELSE "ok"]>>

\* issues/comments: one comment under pull request 1 and one under the issue,
\* its id the number of its parent, which issue_url ends in
CommentParents == {1, IssueNumber}
CommentsOn(prs, iss) == CommentParents \cap ((DOMAIN prs) \cup (DOMAIN iss))
CommentsFeed(prs, iss, bad) ==
    LET items == TrackerItems(prs, iss)
        order == SortedDesc(items, CommentsOn(prs, iss))
    IN [i \in 1..Len(order) |->
          [id |-> order[i], issue_url |-> order[i],
           shape |-> IF order[i] \in bad THEN "bad" ELSE "ok"]]

\* releases: one release
ReleasesFeed(bad) ==
    <<[id |-> ReleaseTag, tag_name |-> ReleaseTag, shape |-> IF ReleaseTag \in bad THEN "bad" ELSE "ok"]>>

\* ---- the other upserts ----
upsert_issue(table, rec, t, fails) ==
    IF fails THEN [db |-> table, ret |-> FALSE]
    ELSE [db |-> InsertOrReplace(table, rec.number,
                     [id |-> rec.id, updated_at |-> rec.updated_at,
                      last_fetched_at |-> IsoFormat(t)]),
          ret |-> TRUE]
upsert_review(table, rec, t, fails) ==
    IF fails THEN [db |-> table, ret |-> FALSE]
    ELSE [db |-> InsertOrReplace(table, rec.id,
                     [id |-> rec.id, pr_number |-> rec.pr_number,
                      last_fetched_at |-> IsoFormat(t)]),
          ret |-> TRUE]
\* the CHECK constraint of comments rejects a row that breaks the XOR
\* (mutation of upsert_comment: no CHECK on the table, and the number is
\* written to both columns)
upsert_comment_both_columns(table, rec, t, fails) ==
    IF fails THEN [db |-> table, ret |-> FALSE]
    ELSE [db |-> InsertOrReplace(table, rec.id,
                     [id |-> rec.id,
                      issue_number |-> Max(rec.issue_number, rec.pr_number),
                      pr_number |-> Max(rec.issue_number, rec.pr_number),
                      comment_type |-> rec.comment_type,
                      last_fetched_at |-> IsoFormat(t)]),
          ret |-> TRUE]
upsert_comment(table, rec, t, fails) ==
    IF fails \/ ((rec.issue_number = 0) = (rec.pr_number = 0))
    THEN [db |-> table, ret |-> FALSE]
    ELSE [db |-> InsertOrReplace(table, rec.id,
                     [id |-> rec.id, issue_number |-> rec.issue_number,
                      pr_number |-> rec.pr_number,
                      comment_type |-> rec.comment_type,
                      last_fetched_at |-> IsoFormat(t)]),
          ret |-> TRUE]
upsert_release(table, rec, t, fails) ==
    IF fails THEN [db |-> table, ret |-> FALSE]
    ELSE [db |-> InsertOrReplace(table, rec.tag_name,
                     [id |-> rec.id, last_fetched_at |-> IsoFormat(t)]),
          ret |-> TRUE]
get_pull_request_by_number(table, n) == n \in DOMAIN table

\* ---- the other normalisations ----
_process_issue(issue) ==
    [id |-> issue.id, number |-> issue.number, updated_at |-> issue.updated_at]
_process_review(review, pr_number) == [id |-> review.id, pr_number |-> pr_number]
\* (mutation of _process_comment: no cross-reference, always an issue comment)
_process_comment_no_lookup(comment, prs_table) ==
    [id |-> comment.id, issue_number |-> comment.issue_url, pr_number |-> 0,
     comment_type |-> "issue"]
_process_comment(comment, prs_table) ==
    LET number == comment.issue_url
        is_pr == get_pull_request_by_number(prs_table, number)
    IN [id |-> comment.id,
        issue_number |-> IF is_pr THEN 0 ELSE number,
        pr_number |-> IF is_pr THEN number ELSE 0,
        comment_type |-> IF is_pr THEN "pr" ELSE "issue"]
_process_release(release) == [id |-> release.id, tag_name |-> release.tag_name]

\* ---- the loops of the other phases ----
\* fetch_and_store_issues / _since: items carrying 'pull_request' are skipped
\* (mutation of StoreIssues: the test for 'pull_request' is left out)
RECURSIVE StoreIssues_keep_pull_requests(_, _, _, _)
StoreIssues_keep_pull_requests(recs, fail, table, t) ==
    IF recs = <<>> THEN [db |-> table, count |-> 0, raised |-> FALSE]
    ELSE LET issue == Head(recs)
         IN IF Raises(issue) THEN [db |-> table, count |-> 0, raised |-> TRUE]
            ELSE LET u == upsert_issue(table, _process_issue(issue), t,
                                       issue.number \in fail)
                     rest == StoreIssues_keep_pull_requests(Tail(recs), fail, u.db, t)
                 IN [db |-> rest.db, count |-> rest.count + (IF u.ret THEN 1 ELSE 0),
                     raised |-> rest.raised]

RECURSIVE StoreIssues(_, _, _, _)
StoreIssues(recs, fail, table, t) ==
    IF recs = <<>> THEN [db |-> table, count |-> 0, raised |-> FALSE]
    ELSE LET issue == Head(recs)
         IN IF issue.pull_request THEN StoreIssues(Tail(recs), fail, table, t)
            ELSE IF Raises(issue) THEN [db |-> table, count |-> 0, raised |-> TRUE]
            ELSE LET u == upsert_issue(table, _process_issue(issue), t,
                                       issue.number \in fail)
                     rest == StoreIssues(Tail(recs), fail, u.db, t)
                 IN [db |-> rest.db, count |-> rest.count + (IF u.ret THEN 1 ELSE 0),
                     raised |-> rest.raised]

RECURSIVE StoreReviews(_, _, _, _, _)
StoreReviews(recs, pr_number, fail, table, t) ==
    IF recs = <<>> THEN [db |-> table, count |-> 0, raised |-> FALSE]
    ELSE LET review == Head(recs)
         IN IF Raises(review) THEN [db |-> table, count |-> 0, raised |-> TRUE]
            ELSE LET u == upsert_review(table, _process_review(review, pr_number), t,
                                        review.id \in fail)
                     rest == StoreReviews(Tail(recs), pr_number, fail, u.db, t)
                 IN [db |-> rest.db, count |-> rest.count + (IF u.ret THEN 1 ELSE 0),
                     raised |-> rest.raised]

RECURSIVE StoreComments(_, _, _, _, _)
StoreComments(recs, prs_table, fail, table, t) ==
    IF recs = <<>> THEN [db |-> table, count |-> 0, raised |-> FALSE]
    ELSE LET comment == Head(recs)
         IN IF Raises(comment) THEN [db |-> table, count |-> 0, raised |-> TRUE]
            ELSE LET u == upsert_comment(table, _process_comment(comment, prs_table), t,
                                         comment.id \in fail)
                     rest == StoreComments(Tail(recs), prs_table, fail, u.db, t)
                 IN [db |-> rest.db, count |-> rest.count + (IF u.ret THEN 1 ELSE 0),
                     raised |-> rest.raised]

RECURSIVE StoreReleases(_, _, _, _)
StoreReleases(recs, fail, table, t) ==
    IF recs = <<>> THEN [db |-> table, count |-> 0, raised |-> FALSE]
    ELSE LET release == Head(recs)
         IN IF Raises(release) THEN [db |-> table, count |-> 0, raised |-> TRUE]
            ELSE LET u == upsert_release(table, _process_release(release), t,
                                         release.tag_name \in fail)
                     rest == StoreReleases(Tail(recs), fail, u.db, t)
                 IN [db |-> rest.db, count |-> rest.count + (IF u.ret THEN 1 ELSE 0),
                     raised |-> rest.raised]

\* ORDER BY created_at DESC: numbers are handed out in creation order
RECURSIVE NumbersDesc(_)
NumbersDesc(S) ==
    IF S = {} THEN <<>>
    ELSE LET n == CHOOSE x \in S : \A y \in S : y <= x
         IN <<n>> \o NumbersDesc(S \ {n})

\* the loop of fetch_and_store_reviews_for_all_prs / _for_prs: one request per
\* number; a request in down fails, as does one for a number the remote lacks
RECURSIVE ReviewsForPRs(_, _, _, _, _, _, _)
ReviewsForPRs(pr_numbers, remote, down, bad, fail, table, t) ==
    IF pr_numbers = <<>>
    THEN [db |-> table, count |-> 0, raised |-> FALSE, req |-> {}]
    ELSE LET pr_number == Head(pr_numbers)
             reviews_data == fetch_api(pr_number \in DOMAIN remote /\ pr_number \notin down,
                                       ReviewsOf(pr_number, bad))
             here == IF Falsy(reviews_data)
                     THEN [db |-> table, count |-> 0, raised |-> FALSE]
                     ELSE StoreReviews(reviews_data.data, pr_number, fail, table, t)
         IN IF here.raised
            THEN [db |-> here.db, count |-> here.count, raised |-> TRUE,
                  req |-> {<<"reviews", pr_number>>}]
            ELSE LET rest == ReviewsForPRs(Tail(pr_numbers), remote, down, bad, fail,
                                           here.db, t)
                 IN [db |-> rest.db, count |-> here.count + rest.count,
                     raised |-> rest.raised,
                     req |-> {<<"reviews", pr_number>>} \cup rest.req]

\* (mutation of WithStats: the record is rebuilt from the detail payload)
WithStats_from_detail(row, detail) ==
    [id |-> detail.id, number |-> detail.number, updated_at |-> detail.updated_at,
     state |-> IF detail.merged_at # Null THEN "merged" ELSE detail.state,
     merged_at |-> detail.merged_at, additions |-> detail.additions]
\* the loop of fetch_add_del_data (lines 65-84) over the rows read at its start
WithStats(row, detail) ==
    [id |-> row.id, number |-> row.number, updated_at |-> row.updated_at,
     state |-> row.state, merged_at |-> row.merged_at,
     additions |-> detail.additions]
RECURSIVE AddDelAll(_, _, _, _, _, _)
AddDelAll(pr_numbers, rows, remote, down, fail, t) ==
    IF pr_numbers = <<>> THEN [db |-> rows.cur, count |-> 0, req |-> {}]
    ELSE LET pr_number == Head(pr_numbers)
             ok == pr_number \in DOMAIN remote /\ pr_number \notin down
             base == CHOOSE r \in rows.read : r.number = pr_number
             u == IF ok
                  THEN upsert_pull_request(rows.cur,
                           WithStats(base, PullDetail(remote, pr_number, {})), t,
                           pr_number \in fail)
                  ELSE [db |-> rows.cur, ret |-> FALSE]
             rest == AddDelAll(Tail(pr_numbers), [read |-> rows.read, cur |-> u.db],
                               remote, down, fail, t)
         IN [db |-> rest.db,
             count |-> rest.count + (IF ok THEN 1 ELSE 0),
             req |-> {<<"pulls", pr_number>>} \cup rest.req]

\* the loop of fetch_add_del_for_prs (lines 95-118)
RECURSIVE AddDelFor(_, _, _, _, _, _, _)
AddDelFor(pr_numbers, rows, remote, down, bad, fail, t) ==
    IF pr_numbers = <<>> THEN [db |-> rows.cur, count |-> 0, raised |-> FALSE, req |-> {}]
    ELSE LET pr_number == Head(pr_numbers)
             ok == pr_number \in DOMAIN remote /\ pr_number \notin down
             known == \E r \in rows.read : r.number = pr_number
             detail == PullDetail(remote, pr_number, bad)
         IN IF ok /\ ~known /\ Raises(detail)
            THEN [db |-> rows.cur, count |-> 0, raised |-> TRUE,
                  req |-> {<<"pulls", pr_number>>}]
            ELSE LET rec == IF known
                            THEN WithStats(CHOOSE r \in rows.read : r.number = pr_number,
                                           detail)
                            ELSE [_process_pull_request(detail) EXCEPT
                                     !.additions = detail.additions]
                     u == IF ok THEN upsert_pull_request(rows.cur, rec, t, pr_number \in fail)
                          ELSE [db |-> rows.cur, ret |-> FALSE]
                     rest == AddDelFor(Tail(pr_numbers), [read |-> rows.read, cur |-> u.db],
                                       remote, down, bad, fail, t)
                 IN [db |-> rest.db, count |-> rest.count + (IF ok THEN 1 ELSE 0),
                     raised |-> rest.raised,
                     req |-> {<<"pulls", pr_number>>} \cup rest.req]

\* ---- the state after construction ----
EmptyTable == [k \in {} |-> <<>>]
NoFault == [ok |-> TRUE, down |-> {}, bad |-> {}, fail |-> {}]
NoUpsert == [rec |-> <<>>, streak |-> 0, once |-> <<>>, at |-> 0, calls |-> 0]
Partial(S, V) == UNION {[D -> V] : D \in SUBSET S}
InitialTimes == {DefaultTime}

Init ==
    /\ now = StartTime
    /\ remote_prs \in Partial({1}, [updated_at : InitialTimes, state : {"open"},
                                    merged_at : {Null}])
    /\ remote_issues \in [{IssueNumber} -> [updated_at : InitialTimes]]
    /\ pull_requests = EmptyTable
    /\ issues = EmptyTable
    /\ reviews = EmptyTable
    /\ comments = EmptyTable
    /\ releases = EmptyTable
    /\ metadata = initialize_metadata(EmptyTable)
    /\ pc = "idle"
    /\ last_inc = <<>>
    /\ pr_data = None
    /\ processed = {}
    /\ updated_pr_numbers = <<>>
    /\ counts = EmptyTable
    /\ requested = {}
    /\ changes = 0
    /\ faults = 0
    /\ quiet = TRUE
    /\ injected = NoFault
    /\ applied = NoUpsert

\* ---- the environment ----
Tick ==
    /\ Events < MaxEvents
    /\ now' = now + 1
    /\ UNCHANGED <<injected, applied, github, tables, metadata, pc, locals, counts,
                   requested, changes, faults, quiet>>

\* a pull request is opened (the remote numbers them in sequence), then
\* merged (the remote then reports it closed, with a merge time), then
\* edited: the remote stamps each change with the time
RemotePullRequestChange(n) ==
    /\ n \in DOMAIN remote_prs \/ \A m \in 1..(n - 1) : m \in DOMAIN remote_prs
    /\ remote_prs' = Put(remote_prs, n,
            IF n \notin DOMAIN remote_prs
            THEN [updated_at |-> now, state |-> "open", merged_at |-> Null]
            ELSE IF remote_prs[n].merged_at = Null
            THEN [updated_at |-> now, state |-> "closed",
                  merged_at |-> GitHubTime(now)]
            ELSE [remote_prs[n] EXCEPT !.updated_at = now])
    /\ remote_prs' # remote_prs
    /\ Events < MaxEvents
    /\ changes' = changes + 1
    /\ quiet' = FALSE
    /\ UNCHANGED <<injected, applied, now, remote_issues, tables, metadata, pc,
                   locals, counts, requested, faults>>

RemoteIssueChange ==
    /\ remote_issues' = Put(remote_issues, IssueNumber, [updated_at |-> now])
    /\ remote_issues' # remote_issues
    /\ Events < MaxEvents
    /\ changes' = changes + 1
    /\ UNCHANGED <<injected, applied, now, remote_prs, tables, metadata, pc, locals,
                   counts, requested, faults, quiet>>

\* ---- cli.run: a new process constructs the pipeline and starts a run ----
Returned(key, n) == Put(counts, key, n)

\* (mutation of run_full: the checkpoint is written when the run starts)
run_full_checkpoint_first ==
    /\ pc \in {"idle", "raised", "crashed"}
    /\ metadata' = update_last_sync_time(initialize_metadata(metadata), "full", now)
    /\ pc' = "full_prs"
    /\ last_inc' = <<>>
    /\ pr_data' = None
    /\ processed' = {}
    /\ updated_pr_numbers' = <<>>
    /\ counts' = EmptyTable
    /\ requested' = {}
    /\ quiet' = TRUE
    /\ injected' = NoFault
    /\ UNCHANGED <<applied, now, github, tables, changes, faults>>

\* (mutation of run_full: the run starts with the reviews phase)
run_full_reviews_first ==
    /\ pc \in {"idle", "raised", "crashed"}
    /\ metadata' = initialize_metadata(metadata)
    /\ pc' = "full_reviews"
    /\ last_inc' = <<>>
    /\ pr_data' = None
    /\ processed' = {}
    /\ updated_pr_numbers' = <<>>
    /\ counts' = EmptyTable
    /\ requested' = {}
    /\ quiet' = TRUE
    /\ injected' = NoFault
    /\ UNCHANGED <<applied, now, github, tables, changes, faults>>

run_full ==
    /\ pc \in {"idle", "raised", "crashed"}
    /\ metadata' = initialize_metadata(metadata)
    /\ pc' = "full_prs"
    /\ last_inc' = <<>>
    /\ pr_data' = None
    /\ processed' = {}
    /\ updated_pr_numbers' = <<>>
    /\ counts' = EmptyTable
    /\ requested' = {}
    /\ quiet' = TRUE
    /\ injected' = NoFault
    /\ UNCHANGED <<applied, now, github, tables, changes, faults>>

\* sync_incremental, lines 353-358
\* (mutation of Cutoff: the full-sync checkpoint is not looked at)
Cutoff_incremental_only(meta) ==
    LET last_inc_raw == get_last_sync_time(meta, "incremental")
    IN IsoFormat(IF last_inc_raw # <<>> THEN FromIsoFormat(last_inc_raw)
                 ELSE DefaultTime)
Cutoff(meta) ==
    LET last_inc_raw == get_last_sync_time(meta, "incremental")
        last_full_raw == get_last_sync_time(meta, "full")
        last_inc_dt == IF last_inc_raw # <<>> THEN FromIsoFormat(last_inc_raw)
                       ELSE DefaultTime
        last_full_dt == IF last_full_raw # <<>> THEN FromIsoFormat(last_full_raw)
                        ELSE DefaultTime
    IN IsoFormat(Max(last_inc_dt, last_full_dt))

\* datetime.fromisoformat raises on a stored value it cannot parse (lines
\* 356-357 have no try)
CutoffRaises(meta) ==
    \E sync_type \in {"incremental", "full"} :
        /\ get_last_sync_time(meta, sync_type) # <<>>
        /\ ~Parsable(get_last_sync_time(meta, sync_type))

run_incremental ==
    /\ pc \in {"idle", "raised", "crashed"}
    /\ metadata' = initialize_metadata(metadata)
    /\ IF CutoffRaises(metadata')
       THEN pc' = "raised" /\ last_inc' = <<>>
       ELSE pc' = "inc_prs" /\ last_inc' = Cutoff(metadata')
    /\ pr_data' = None
    /\ processed' = {}
    /\ updated_pr_numbers' = <<>>
    /\ counts' = EmptyTable
    /\ requested' = {}
    /\ quiet' = TRUE
    /\ injected' = NoFault
    /\ UNCHANGED <<applied, now, github, tables, changes, faults>>

\* cli.run with no GITHUB_TOKEN in the environment: GitHubDataPipeline.__init__
\* constructs the DatabaseManager (which initialises the store) and raises
\* ValueError before sync_all_data / sync_incremental is called
\* (mutation: the constructor does not look at the token)
pipeline_init_token_unchecked == run_incremental
pipeline_init_raises ==
    /\ pc \in {"idle", "raised", "crashed"}
    /\ metadata' = initialize_metadata(metadata)
    /\ pc' = "raised"
    /\ last_inc' = <<>>
    /\ pr_data' = None
    /\ processed' = {}
    /\ updated_pr_numbers' = <<>>
    /\ counts' = EmptyTable
    /\ requested' = {}
    /\ quiet' = TRUE
    /\ injected' = NoFault
    /\ UNCHANGED <<applied, now, github, tables, changes, faults>>

\* ---- the phases of sync_all_data ----
\* what goes wrong in one phase: the list request fails (~ok), the requests for
\* the numbers in down fail, the records in bad are malformed, the upserts of
\* the records in fail fail
Fault(ok, down, bad, fail) ==
    LET n == (IF ok THEN 0 ELSE 1) + Cardinality(down) + Cardinality(bad)
             + Cardinality(fail)
    IN /\ Events + n <= MaxEvents
       /\ faults' = faults + n
       /\ injected' = [ok |-> ok, down |-> down, bad |-> bad, fail |-> fail]
       /\ ~ok => (bad = {} /\ fail = {})

fetch_and_store_pull_requests ==
    /\ pc = "full_prs"
    /\ \E ok \in BOOLEAN, bad \in SUBSET DOMAIN remote_prs,
          fail \in SUBSET DOMAIN remote_prs :
        /\ Fault(ok, {}, bad, fail)
        /\ LET data == fetch_api(ok, PullsFeed(remote_prs, bad))
               res == StorePullRequests(data.data, fail, pull_requests, now)
           IN /\ requested' \in {requested \cup R :
                      R \in PageRequests("pulls?", ok, PullsFeed(remote_prs, bad))}
              /\ IF Falsy(data)
                 THEN /\ counts' = Returned("pull_requests", 0)
                      /\ pc' = "full_issues"
                      /\ UNCHANGED <<pull_requests, metadata>>
                 ELSE /\ pull_requests' = res.db
                      /\ IF res.raised
                         THEN /\ pc' = "raised"
                              /\ UNCHANGED <<metadata, counts>>
                         ELSE /\ metadata' = set_metadata(
                                     update_last_sync_time(metadata, "pr", now),
                                     "total_prs_tracked", Str(res.count))
                              /\ counts' = Returned("pull_requests", res.count)
                              /\ pc' = "full_issues"
    /\ UNCHANGED <<applied, now, github, changes, quiet, issues, reviews, comments,
                   releases, locals>>

fetch_and_store_issues ==
    /\ pc = "full_issues"
    /\ \E ok \in BOOLEAN, bad \in SUBSET {IssueNumber}, fail \in SUBSET {IssueNumber} :
        /\ Fault(ok, {}, bad, fail)
        /\ LET data == fetch_api(ok, IssuesFeed(remote_prs, remote_issues, <<>>, bad))
               res == StoreIssues(data.data, fail, issues, now)
           IN /\ requested' \in {requested \cup R :
                      R \in PageRequests("issues?", ok,
                             IssuesFeed(remote_prs, remote_issues, <<>>, bad))}
              /\ IF Falsy(data)
                 THEN /\ counts' = Returned("issues", 0)
                      /\ pc' = "full_reviews"
                      /\ UNCHANGED <<issues, metadata>>
                 ELSE /\ issues' = res.db
                      /\ IF res.raised
                         THEN /\ pc' = "raised"
                              /\ UNCHANGED <<metadata, counts>>
                         ELSE /\ metadata' = set_metadata(
                                     update_last_sync_time(metadata, "issue", now),
                                     "total_issues_tracked", Str(res.count))
                              /\ counts' = Returned("issues", res.count)
                              /\ pc' = "full_reviews"
    /\ UNCHANGED <<applied, now, github, changes, quiet, pull_requests, reviews,
                   comments, releases, locals>>

\* (mutation of fetch_and_store_reviews_for_all_prs: the loop runs over the
\* pull requests of the remote, not over the stored ones)
fetch_and_store_reviews_for_all_prs_remote ==
    /\ pc = "full_reviews"
    /\ \E down \in SUBSET DOMAIN remote_prs, bad \in SUBSET DOMAIN remote_prs,
          fail \in SUBSET DOMAIN remote_prs :
        /\ Fault(TRUE, down, bad, fail)
        /\ LET res == ReviewsForPRs(NumbersDesc(DOMAIN remote_prs), remote_prs,
                                    down, bad, fail, reviews, now)
           IN /\ requested' = requested \cup res.req
              /\ reviews' = res.db
              /\ IF res.raised
                 THEN pc' = "raised" /\ UNCHANGED counts
                 ELSE pc' = "full_comments" /\ counts' = Returned("reviews", res.count)
    /\ UNCHANGED <<applied, now, github, changes, quiet, pull_requests, issues,
                   comments, releases, metadata, locals>>

fetch_and_store_reviews_for_all_prs ==
    /\ pc = "full_reviews"
    /\ \E down \in SUBSET DOMAIN pull_requests, bad \in SUBSET DOMAIN pull_requests,
          fail \in SUBSET DOMAIN pull_requests :
        /\ Fault(TRUE, down, bad, fail)
        /\ LET res == ReviewsForPRs(NumbersDesc(DOMAIN pull_requests), remote_prs,
                                    down, bad, fail, reviews, now)
           IN /\ requested' = requested \cup res.req
              /\ reviews' = res.db
              /\ IF res.raised
                 THEN pc' = "raised" /\ UNCHANGED counts
                 ELSE pc' = "full_comments" /\ counts' = Returned("reviews", res.count)
    /\ UNCHANGED <<applied, now, github, changes, quiet, pull_requests, issues,
                   comments, releases, metadata, locals>>

fetch_and_store_comments ==
    /\ pc = "full_comments"
    /\ \E ok \in BOOLEAN, bad \in SUBSET CommentsOn(remote_prs, remote_issues),
          fail \in SUBSET CommentsOn(remote_prs, remote_issues) :
        /\ Fault(ok, {}, bad, fail)
        /\ LET data == fetch_api(ok, CommentsFeed(remote_prs, remote_issues, bad))
               res == StoreComments(data.data, pull_requests, fail, comments, now)
           IN /\ requested' \in {requested \cup R :
                      R \in PageRequests("issues/comments?", ok,
                             CommentsFeed(remote_prs, remote_issues, bad))}
              /\ IF Falsy(data)
                 THEN /\ counts' = Returned("comments", 0)
                      /\ pc' = "full_releases"
                      /\ UNCHANGED comments
                 ELSE /\ comments' = res.db
                      /\ IF res.raised
                         THEN pc' = "raised" /\ UNCHANGED counts
                         ELSE /\ counts' = Returned("comments", res.count)
                              /\ pc' = "full_releases"
    /\ UNCHANGED <<applied, now, github, changes, quiet, pull_requests, issues,
                   reviews, releases, metadata, locals>>

fetch_and_store_releases ==
    /\ pc = "full_releases"
    /\ \E ok \in BOOLEAN, bad \in SUBSET {ReleaseTag}, fail \in SUBSET {ReleaseTag} :
        /\ Fault(ok, {}, bad, fail)
        /\ LET data == fetch_api(ok, ReleasesFeed(bad))
               res == StoreReleases(data.data, fail, releases, now)
           IN /\ requested' \in {requested \cup R :
                      R \in PageRequests("releases?", ok, ReleasesFeed(bad))}
              /\ IF Falsy(data)
                 THEN /\ counts' = Returned("releases", 0)
                      /\ pc' = "full_stats"
                      /\ UNCHANGED releases
                 ELSE /\ releases' = res.db
                      /\ IF res.raised
                         THEN pc' = "raised" /\ UNCHANGED counts
                         ELSE /\ counts' = Returned("releases", res.count)
                              /\ pc' = "full_stats"
    /\ UNCHANGED <<applied, now, github, changes, quiet, pull_requests, issues,
                   reviews, comments, metadata, locals>>

fetch_add_del_data ==
    /\ pc = "full_stats"
    /\ \E down \in SUBSET DOMAIN pull_requests, fail \in SUBSET DOMAIN pull_requests :
        /\ Fault(TRUE, down, {}, fail)
        /\ LET res == AddDelAll(NumbersDesc(DOMAIN pull_requests),
                                [read |-> get_pull_requests(pull_requests),
                                 cur |-> pull_requests],
                                remote_prs, down, fail, now)
           IN /\ requested' = requested \cup res.req
              /\ pull_requests' = res.db
              /\ counts' = Returned("additions_deletions_fetched", res.count)
    /\ pc' = "full_return"
    /\ UNCHANGED <<applied, now, github, changes, quiet, issues, reviews, comments,
                   releases, metadata, locals>>

\* (mutation of sync_all_data_return: no checkpoint when no pull request was
\* stored)
sync_all_data_return_if_stored ==
    /\ pc = "full_return"
    /\ metadata' = IF counts["pull_requests"] > 0
                   THEN update_last_sync_time(metadata, "full", now)
                   ELSE metadata
    /\ pc' = "idle"
    /\ last_inc' = <<>>
    /\ pr_data' = None
    /\ processed' = {}
    /\ updated_pr_numbers' = <<>>
    /\ requested' = {}
    /\ injected' = NoFault
    /\ UNCHANGED <<applied, now, github, tables, counts, changes, faults, quiet>>

\* sync_all_data, lines 337-347
sync_all_data_return ==
    /\ pc = "full_return"
    /\ metadata' = update_last_sync_time(metadata, "full", now)
    /\ pc' = "idle"
    /\ last_inc' = <<>>
    /\ pr_data' = None
    /\ processed' = {}
    /\ updated_pr_numbers' = <<>>
    /\ requested' = {}
    /\ injected' = NoFault
    /\ UNCHANGED <<applied, now, github, tables, counts, changes, faults, quiet>>

\* ---- the phases of sync_incremental ----
fetch_and_store_pull_requests_since ==
    /\ pc = "inc_prs"
    /\ \E ok \in BOOLEAN, bad \in SUBSET DOMAIN remote_prs,
          fail \in SUBSET DOMAIN remote_prs :
        /\ Fault(ok, {}, bad, fail)
        /\ LET data == fetch_api(ok, PullsFeed(remote_prs, bad))
               res == StorePullRequests(TakeSince(data.data, last_inc), fail,
                                        pull_requests, now)
           IN /\ pr_data' = data
              /\ requested' \in {requested \cup R :
                      R \in PageRequests("pulls?", ok, PullsFeed(remote_prs, bad))}
              /\ IF Falsy(data)
                 THEN /\ counts' = Returned("pull_requests", 0)
                      /\ pc' = "inc_touched"
                      /\ UNCHANGED <<pull_requests, processed>>
                 ELSE /\ pull_requests' = res.db
                      /\ processed' = res.done
                      /\ IF res.raised
                         THEN pc' = "raised" /\ UNCHANGED counts
                         ELSE /\ counts' = Returned("pull_requests", res.count)
                              /\ pc' = "inc_touched"
    /\ UNCHANGED <<applied, now, github, changes, quiet, issues, reviews, comments,
                   releases, metadata, last_inc, updated_pr_numbers>>

\* sync_incremental, lines 360-368: the list is fetched a second time
sync_incremental_touched ==
    /\ pc = "inc_touched"
    /\ \E ok \in BOOLEAN :
        /\ Fault(ok, {}, {}, {})
        /\ LET data == fetch_api(ok, PullsFeed(remote_prs, {}))
           IN updated_pr_numbers' = IF Falsy(data) THEN <<>>
                                    ELSE TouchedNumbers(data.data, last_inc)
        /\ requested' \in {requested \cup R :
                          R \in PageRequests("pulls?", ok, PullsFeed(remote_prs, {}))}
    /\ pc' = "inc_issues"
    /\ pr_data' = None
    /\ UNCHANGED <<applied, now, github, changes, quiet, tables, metadata, last_inc,
                   processed, counts>>

fetch_and_store_issues_since ==
    /\ pc = "inc_issues"
    /\ processed' = {}
    /\ \E ok \in BOOLEAN, bad \in SUBSET {IssueNumber}, fail \in SUBSET {IssueNumber} :
        /\ Fault(ok, {}, bad, fail)
        /\ LET data == fetch_api(ok, IssuesFeed(remote_prs, remote_issues, last_inc, bad))
               res == StoreIssues(data.data, fail, issues, now)
           IN /\ requested' \in {requested \cup R :
                      R \in PageRequests("issues?", ok,
                             IssuesFeed(remote_prs, remote_issues, last_inc, bad))}
              /\ IF Falsy(data)
                 THEN /\ counts' = Returned("issues", 0)
                      /\ pc' = "inc_stats"
                      /\ UNCHANGED issues
                 ELSE /\ issues' = res.db
                      /\ IF res.raised
                         THEN pc' = "raised" /\ UNCHANGED counts
                         ELSE /\ counts' = Returned("issues", res.count)
                              /\ pc' = "inc_stats"
    /\ UNCHANGED <<applied, now, github, changes, quiet, pull_requests, reviews,
                   comments, releases, metadata, last_inc, pr_data,
                   updated_pr_numbers>>

fetch_add_del_for_prs ==
    /\ pc = "inc_stats"
    /\ \E down \in SUBSET Range(updated_pr_numbers),
          bad \in SUBSET Range(updated_pr_numbers),
          fail \in SUBSET Range(updated_pr_numbers) :
        /\ Fault(TRUE, down, bad, fail)
        /\ LET res == AddDelFor(updated_pr_numbers,
                                [read |-> get_pull_requests(pull_requests),
                                 cur |-> pull_requests],
                                remote_prs, down, bad, fail, now)
           IN /\ requested' = requested \cup res.req
              /\ pull_requests' = res.db
              /\ IF res.raised
                 THEN pc' = "raised" /\ UNCHANGED counts
                 ELSE /\ counts' = Returned("additions_deletions_updated", res.count)
                      /\ pc' = "inc_return"
    /\ UNCHANGED <<applied, now, github, changes, quiet, issues, reviews, comments,
                   releases, metadata, locals>>

\* sync_incremental, lines 371-380
sync_incremental_return ==
    /\ pc = "inc_return"
    /\ metadata' = update_last_sync_time(metadata, "incremental", now)
    /\ pc' = "idle"
    /\ last_inc' = <<>>
    /\ pr_data' = None
    /\ processed' = {}
    /\ updated_pr_numbers' = <<>>
    /\ requested' = {}
    /\ injected' = NoFault
    /\ UNCHANGED <<applied, now, github, tables, counts, changes, faults, quiet>>

\* the process is killed in the middle of a run; what it has committed stays
MidRun == {"full_prs", "full_issues", "full_reviews", "full_comments",
           "full_releases", "full_stats", "full_return",
           "inc_prs", "inc_touched", "inc_issues", "inc_stats", "inc_return"}
crash ==
    /\ pc \in MidRun
    /\ Events < MaxEvents
    /\ faults' = faults + 1
    /\ pc' = "crashed"
    /\ last_inc' = <<>>
    /\ pr_data' = None
    /\ processed' = {}
    /\ updated_pr_numbers' = <<>>
    /\ requested' = {}
    /\ injected' = NoFault
    /\ UNCHANGED <<applied, now, github, tables, metadata, counts, changes, quiet>>

\* ---- the specification ----
Environment ==
    \/ Tick
    \/ crash
    \/ \E n \in PRNumbers : RemotePullRequestChange(n)
    \/ RemoteIssueChange

FullSync ==
    \/ run_full
    \/ fetch_and_store_pull_requests
    \/ fetch_and_store_issues
    \/ fetch_and_store_reviews_for_all_prs
    \/ fetch_and_store_comments
    \/ fetch_and_store_releases
    \/ fetch_add_del_data
    \/ sync_all_data_return

IncrementalSync ==
    \/ run_incremental
    \/ fetch_and_store_pull_requests_since
    \/ sync_incremental_touched
    \/ fetch_and_store_issues_since
    \/ fetch_add_del_for_prs
    \/ sync_incremental_return

Next == Environment \/ FullSync \/ IncrementalSync

Spec == Init /\ [][Next]_vars

\* ---- the store on its own: a caller makes upsert calls on one table ----
StoreKinds == {"upsert_pull_request", "upsert_issue", "upsert_review",
               "upsert_comment", "upsert_release"}
\* normalised records, as the _process_ functions build them
PullRequestRecords ==
    [id : PRNumbers, number : PRNumbers, updated_at : {GitHubTime(DefaultTime)},
     state : {"open"}, merged_at : {Null}, additions : {"null"}]
IssueRecords == [id : PRNumbers, number : PRNumbers, updated_at : {GitHubTime(DefaultTime)}]
ReviewRecords == [id : PRNumbers, pr_number : PRNumbers]
CommentRecords ==
    {[id |-> i, issue_number |-> n, pr_number |-> m,
      comment_type |-> IF m # 0 THEN "pr" ELSE "issue"] :
        i \in PRNumbers, n \in {0, 1}, m \in {0, 1}}
ReleaseRecords == [id : PRNumbers, tag_name : PRNumbers]

\* SELECT * ... WHERE <key> = k
ReadBack(table, k) == IF k \in DOMAIN table THEN <<table[k]>> ELSE <<>>

\* the call just made: record rec, what it returned, and the row read back
\* after the first of a run of successful calls with the same record
Called(rec, u, k) ==
    LET streak == IF u.ret
                  THEN (IF applied.rec = <<rec>> THEN applied.streak ELSE 0) + 1
                  ELSE 0
    IN [rec |-> <<rec>>, streak |-> streak,
        once |-> IF streak = 1 THEN ReadBack(u.db, k)
                 ELSE IF streak = 0 THEN <<>> ELSE applied.once,
        at |-> now, calls |-> applied.calls + 1]

call_upsert_pull_request ==
    /\ pc = "upsert_pull_request"
    /\ applied.calls < MaxUpserts
    /\ \E rec \in PullRequestRecords, fails \in BOOLEAN :
        LET u == upsert_pull_request(pull_requests, rec, now, fails)
        IN /\ pull_requests' = u.db
           /\ applied' = Called(rec, u, rec.number)
    /\ UNCHANGED <<now, github, issues, reviews, comments, releases, metadata, pc,
                   locals, counts, requested, changes, faults, quiet, injected>>

call_upsert_issue ==
    /\ pc = "upsert_issue"
    /\ applied.calls < MaxUpserts
    /\ \E rec \in IssueRecords, fails \in BOOLEAN :
        LET u == upsert_issue(issues, rec, now, fails)
        IN /\ issues' = u.db
           /\ applied' = Called(rec, u, rec.number)
    /\ UNCHANGED <<now, github, pull_requests, reviews, comments, releases, metadata,
                   pc, locals, counts, requested, changes, faults, quiet, injected>>

call_upsert_review ==
    /\ pc = "upsert_review"
    /\ applied.calls < MaxUpserts
    /\ \E rec \in ReviewRecords, fails \in BOOLEAN :
        LET u == upsert_review(reviews, rec, now, fails)
        IN /\ reviews' = u.db
           /\ applied' = Called(rec, u, rec.id)
    /\ UNCHANGED <<now, github, pull_requests, issues, comments, releases, metadata,
                   pc, locals, counts, requested, changes, faults, quiet, injected>>

call_upsert_comment ==
    /\ pc = "upsert_comment"
    /\ applied.calls < MaxUpserts
    /\ \E rec \in CommentRecords, fails \in BOOLEAN :
        LET u == upsert_comment(comments, rec, now, fails)
        IN /\ comments' = u.db
           /\ applied' = Called(rec, u, rec.id)
    /\ UNCHANGED <<now, github, pull_requests, issues, reviews, releases, metadata,
                   pc, locals, counts, requested, changes, faults, quiet, injected>>

call_upsert_release ==
    /\ pc = "upsert_release"
    /\ applied.calls < MaxUpserts
    /\ \E rec \in ReleaseRecords, fails \in BOOLEAN :
        LET u == upsert_release(releases, rec, now, fails)
        IN /\ releases' = u.db
           /\ applied' = Called(rec, u, rec.tag_name)
    /\ UNCHANGED <<now, github, pull_requests, issues, reviews, comments, metadata,
                   pc, locals, counts, requested, changes, faults, quiet, injected>>

InitStore ==
    /\ now = StartTime
    /\ remote_prs = EmptyTable
    /\ remote_issues = EmptyTable
    /\ pull_requests = EmptyTable
    /\ issues = EmptyTable
    /\ reviews = EmptyTable
    /\ comments = EmptyTable
    /\ releases = EmptyTable
    /\ metadata = initialize_metadata(EmptyTable)
    /\ pc \in StoreKinds
    /\ last_inc = <<>>
    /\ pr_data = None
    /\ processed = {}
    /\ updated_pr_numbers = <<>>
    /\ counts = EmptyTable
    /\ requested = {}
    /\ changes = 0
    /\ faults = 0
    /\ quiet = TRUE
    /\ injected = NoFault
    /\ applied = NoUpsert

NextStore ==
    \/ Tick
    \/ call_upsert_pull_request
    \/ call_upsert_issue
    \/ call_upsert_review
    \/ call_upsert_comment
    \/ call_upsert_release

SpecStore == InitStore /\ [][NextStore]_vars


\* ---- an incremental sync over a store file as it is found ----
\* the checkpoint rows of the file: absent, written by an earlier run, or not
\* a timestamp
StoredCheckpoints ==
    UNION {[D -> {IsoFormat(SeedTime), Unparsable}] :
              D \in SUBSET {"last_full_sync", "last_incremental_sync"}}
\* the remote's records are older or newer than the seeded checkpoints
FoundTimes == {DefaultTime, StartTime}
InitCheckpoint ==
    /\ now = StartTime
    /\ remote_prs \in Partial({1}, [updated_at : FoundTimes, state : {"open"},
                                    merged_at : {Null}])
    /\ remote_issues \in [{IssueNumber} -> [updated_at : FoundTimes]]
    /\ pull_requests = EmptyTable
    /\ issues = EmptyTable
    /\ reviews = EmptyTable
    /\ comments = EmptyTable
    /\ releases = EmptyTable
    /\ metadata \in {initialize_metadata(m) : m \in StoredCheckpoints}
    /\ pc = "idle"
    /\ last_inc = <<>>
    /\ pr_data = None
    /\ processed = {}
    /\ updated_pr_numbers = <<>>
    /\ counts = EmptyTable
    /\ requested = {}
    /\ changes = 0
    /\ faults = 0
    /\ quiet = TRUE
    /\ injected = NoFault
    /\ applied = NoUpsert

NextCheckpoint == Tick \/ IncrementalSync \/ pipeline_init_raises

SpecCheckpoint == InitCheckpoint /\ [][NextCheckpoint]_vars

\* ---- text and the derived columns ----
\* a string is the sequence of its characters; str.lower() on the letters
\* that occur in the inputs
LowerChar(c) ==
    CASE c = "A" -> "a"
      [] c = "B" -> "b"
      [] c = "E" -> "e"
      [] c = "F" -> "f"
      [] c = "G" -> "g"
      [] c = "H" -> "h"
      [] c = "I" -> "i"
      [] c = "K" -> "k"
      [] c = "N" -> "n"
      [] c = "R" -> "r"
      [] c = "U" -> "u"
      [] c = "V" -> "v"
      [] OTHER -> c
Lower(s) == [i \in 1..Len(s) |-> LowerChar(s[i])]
\* Python's  w in s  on two strings
Contains(s, w) ==
    \E i \in 0..(Len(s) - Len(w)) : SubSeq(s, i + 1, i + Len(w)) = w

\* classify_pr_type: the label tests, in order (models.py:214-221)
PRTypeByLabel ==
    <<[words |-> {<<"b", "u", "g">>,
                 <<"b", "u", "g", "f", "i", "x">>,
                 <<"f", "i", "x">>},
       category |-> "bugfix"],
      [words |-> {<<"f", "e", "a", "t", "u", "r", "e">>,
                 <<"e", "n", "h", "a", "n", "c", "e", "m", "e", "n", "t">>,
                 <<"n", "e", "w", "-", "f", "e", "a", "t", "u", "r", "e">>},
       category |-> "feature"],
      [words |-> {<<"d", "o", "c", "u", "m", "e", "n", "t", "a", "t", "i", "o", "n">>,
                 <<"d", "o", "c", "s">>},
       category |-> "docs"],
      [words |-> {<<"m", "a", "i", "n", "t", "e", "n", "a", "n", "c", "e">>,
                 <<"r", "e", "f", "a", "c", "t", "o", "r">>,
                 <<"c", "l", "e", "a", "n", "u", "p">>},
       category |-> "maintenance"]>>
\* classify_pr_type: the title tests, in order (models.py:224-231)
PRTypeByTitle ==
    <<[words |-> {<<"f", "i", "x">>,
                 <<"b", "u", "g">>,
                 <<"p", "a", "t", "c", "h">>,
                 <<"h", "o", "t", "f", "i", "x">>},
       category |-> "bugfix"],
      [words |-> {<<"a", "d", "d">>,
                 <<"f", "e", "a", "t", "u", "r", "e">>,
                 <<"i", "m", "p", "l", "e", "m", "e", "n", "t">>,
                 <<"n", "e", "w">>},
       category |-> "feature"],
      [words |-> {<<"d", "o", "c">>,
                 <<"r", "e", "a", "d", "m", "e">>,
                 <<"d", "o", "c", "u", "m", "e", "n", "t", "a", "t", "i", "o", "n">>},
       category |-> "docs"],
      [words |-> {<<"r", "e", "f", "a", "c", "t", "o", "r">>,
                 <<"c", "l", "e", "a", "n", "u", "p">>,
                 <<"m", "a", "i", "n", "t", "e", "n", "a", "n", "c", "e">>,
                 <<"u", "p", "d", "a", "t", "e">>},
       category |-> "maintenance"]>>
\* classify_issue_type: the label tests (models.py:241-248)
IssueTypeByLabel ==
    <<[words |-> {<<"b", "u", "g">>,
                 <<"e", "r", "r", "o", "r">>,
                 <<"b", "r", "o", "k", "e", "n">>},
       category |-> "bug"],
      [words |-> {<<"f", "e", "a", "t", "u", "r", "e">>,
                 <<"e", "n", "h", "a", "n", "c", "e", "m", "e", "n", "t">>,
                 <<"f", "e", "a", "t", "u", "r", "e", "-", "r", "e", "q", "u", "e", "s", "t">>},
       category |-> "feature"],
      [words |-> {<<"q", "u", "e", "s", "t", "i", "o", "n">>,
                 <<"h", "e", "l", "p">>,
                 <<"s", "u", "p", "p", "o", "r", "t">>},
       category |-> "question"],
      [words |-> {<<"d", "o", "c", "u", "m", "e", "n", "t", "a", "t", "i", "o", "n">>,
                 <<"d", "o", "c", "s">>},
       category |-> "documentation"]>>
\* classify_issue_type: the title tests (models.py:250-257)
IssueTypeByTitle ==
    <<[words |-> {<<"b", "u", "g">>,
                 <<"e", "r", "r", "o", "r">>,
                 <<"b", "r", "o", "k", "e", "n">>,
                 <<"i", "s", "s", "u", "e">>,
                 <<"p", "r", "o", "b", "l", "e", "m">>},
       category |-> "bug"],
      [words |-> {<<"f", "e", "a", "t", "u", "r", "e">>,
                 <<"r", "e", "q", "u", "e", "s", "t">>,
                 <<"a", "d", "d">>,
                 <<"i", "m", "p", "l", "e", "m", "e", "n", "t">>},
       category |-> "feature"],
      [words |-> {<<"h", "o", "w">>,
                 <<"q", "u", "e", "s", "t", "i", "o", "n">>,
                 <<"?">>},
       category |-> "question"],
      [words |-> {<<"d", "o", "c">>,
                 <<"d", "o", "c", "u", "m", "e", "n", "t", "a", "t", "i", "o", "n">>,
                 <<"r", "e", "a", "d", "m", "e">>},
       category |-> "documentation"]>>
\* get_priority_from_labels: the label tests (models.py:266-273)
PriorityByLabel ==
    <<[words |-> {<<"c", "r", "i", "t", "i", "c", "a", "l">>,
                 <<"u", "r", "g", "e", "n", "t">>,
                 <<"h", "i", "g", "h", "-", "p", "r", "i", "o", "r", "i", "t", "y">>},
       category |-> "critical"],
      [words |-> {<<"h", "i", "g", "h">>,
                 <<"i", "m", "p", "o", "r", "t", "a", "n", "t">>},
       category |-> "high"],
      [words |-> {<<"m", "e", "d", "i", "u", "m">>,
                 <<"n", "o", "r", "m", "a", "l">>},
       category |-> "medium"],
      [words |-> {<<"l", "o", "w">>,
                 <<"m", "i", "n", "o", "r">>},
       category |-> "low"]>>

\* any(label in labels_lower for label in [...]): membership in the list
MatchLabels(rules, labels) ==
    LET labels_lower == {Lower(l) : l \in labels}
    IN {i \in 1..Len(rules) : rules[i].words \cap labels_lower # {}}
\* any(word in title_lower for word in [...]): substring of the title
MatchTitle(rules, title) ==
    LET title_lower == Lower(title)
    IN {i \in 1..Len(rules) : \E w \in rules[i].words : Contains(title_lower, w)}
\* the first branch of the if / elif chain that is taken
FirstBranch(rules, hits) == rules[CHOOSE i \in hits : \A j \in hits : i <= j].category

classify_pr_type(title, labels) ==
    IF MatchLabels(PRTypeByLabel, labels) # {}
    THEN FirstBranch(PRTypeByLabel, MatchLabels(PRTypeByLabel, labels))
    ELSE IF MatchTitle(PRTypeByTitle, title) # {}
    THEN FirstBranch(PRTypeByTitle, MatchTitle(PRTypeByTitle, title))
    ELSE "feature"
\* (mutation of classify_issue_type: nothing is returned when nothing matches)
classify_issue_type_no_default(title, labels) ==
    IF MatchLabels(IssueTypeByLabel, labels) # {}
    THEN FirstBranch(IssueTypeByLabel, MatchLabels(IssueTypeByLabel, labels))
    ELSE IF MatchTitle(IssueTypeByTitle, title) # {}
    THEN FirstBranch(IssueTypeByTitle, MatchTitle(IssueTypeByTitle, title))
    ELSE ""
classify_issue_type(title, labels) ==
    IF MatchLabels(IssueTypeByLabel, labels) # {}
    THEN FirstBranch(IssueTypeByLabel, MatchLabels(IssueTypeByLabel, labels))
    ELSE IF MatchTitle(IssueTypeByTitle, title) # {}
    THEN FirstBranch(IssueTypeByTitle, MatchTitle(IssueTypeByTitle, title))
    ELSE "question"
get_priority_from_labels(labels) ==
    IF MatchLabels(PriorityByLabel, labels) # {}
    THEN FirstBranch(PriorityByLabel, MatchLabels(PriorityByLabel, labels))
    ELSE "medium"

\* a JSON string field: null, or a text
NullText == [null |-> TRUE, text |-> <<>>]
Text(s) == [null |-> FALSE, text |-> s]
\* _process_release, line 323: release.get('name', '').lower() +
\* release.get('body', '').lower(); the reply carries both keys, and .lower()
\* of a null raises AttributeError
process_release_raises(release) == release.name.null \/ release.body.null
process_release_is_breaking(release) ==
    Contains(Lower(release.name.text) \o Lower(release.body.text),
             <<"b", "r", "e", "a", "k", "i", "n", "g">>)

\* ---- the derived columns on their own: one record is handled ----
\* texts of at most n of the given pieces
RECURSIVE Concats(_, _)
Concats(pieces, n) ==
    IF n = 0 THEN {<<>>}
    ELSE LET S == Concats(pieces, n - 1)
         IN S \cup {s \o w : s \in S, w \in pieces}
TitlePieces == {<<"F", "i", "x", " ">>,
               <<"A", "d", "d">>,
               <<"r", "e", "a", "d", "m", "e">>,
               <<"U", "p", "d", "a", "t", "e">>,
               <<"H", "o", "w">>,
               <<"?">>,
               <<"x", "y", "z">>,
               <<"e", "r", "r", "o", "r">>}
Titles == Concats(TitlePieces, MaxWords)
LabelNames == {<<"B", "u", "g">>,
              <<"e", "n", "h", "a", "n", "c", "e", "m", "e", "n", "t">>,
              <<"d", "o", "c", "s">>,
              <<"q", "u", "e", "s", "t", "i", "o", "n">>,
              <<"H", "I", "G", "H">>,
              <<"w", "o", "n", "t", "f", "i", "x">>}
LabelLists == {L \in SUBSET LabelNames : Cardinality(L) <= MaxWords}
ReleasePieces == {<<"v", "2", " ">>,
                 <<"B", "r", "e", "a", "k">>,
                 <<"i", "n", "g">>,
                 <<"B", "R", "E", "A", "K", "I", "N", "G">>}
ReleaseTexts == {NullText} \cup {Text(s) : s \in Concats(ReleasePieces, MaxWords)}

InitColumns ==
    /\ now = StartTime
    /\ remote_prs = EmptyTable
    /\ remote_issues = EmptyTable
    /\ pull_requests = EmptyTable
    /\ issues = EmptyTable
    /\ reviews = EmptyTable
    /\ comments = EmptyTable
    /\ releases = EmptyTable
    /\ metadata = initialize_metadata(EmptyTable)
    /\ \/ /\ pc = "classify"
          /\ pr_data \in [ok : {TRUE}, data : {<<r>> : r \in [title : Titles,
                                                              labels : LabelLists]}]
       \/ /\ pc = "process_release"
          /\ pr_data \in [ok : {TRUE}, data : {<<r>> : r \in [name : ReleaseTexts,
                                                              body : ReleaseTexts]}]
    /\ last_inc = <<>>
    /\ processed = {}
    /\ updated_pr_numbers = <<>>
    /\ counts = EmptyTable
    /\ requested = {}
    /\ changes = 0
    /\ faults = 0
    /\ quiet = TRUE
    /\ injected = NoFault
    /\ applied = NoUpsert

\* upsert_pull_request / upsert_issue compute the type and priority columns
\* of the record they are given (database.py:76, 157-158)
derive_columns ==
    /\ pc = "classify"
    /\ LET rec == pr_data.data[1]
       IN applied' = [NoUpsert EXCEPT !.rec =
              <<[pr_type |-> classify_pr_type(rec.title, rec.labels),
                 issue_type |-> classify_issue_type(rec.title, rec.labels),
                 priority |-> get_priority_from_labels(rec.labels)]>>]
    /\ pc' = "classified"
    /\ UNCHANGED <<now, github, tables, metadata, locals, counts, requested,
                   changes, faults, quiet, injected>>

\* _process_release computes is_breaking of the release it is given
process_release ==
    /\ pc = "process_release"
    /\ LET release == pr_data.data[1]
       IN IF process_release_raises(release)
          THEN pc' = "raised" /\ UNCHANGED applied
          ELSE /\ pc' = "processed"
               /\ applied' = [NoUpsert EXCEPT !.rec =
                      <<[is_breaking |-> process_release_is_breaking(release)]>>]
    /\ UNCHANGED <<now, github, tables, metadata, locals, counts, requested,
                   changes, faults, quiet, injected>>

NextColumns == derive_columns \/ process_release

SpecColumns == InitColumns /\ [][NextColumns]_vars

\* ---- fetch_api, page by page ----
\* A specification of the loop of fetch_api (github_client.py:14-38) over a
\* server whose replies are drawn from a bounded set: the reply to the
\* request for page p is an error, or a JSON body (a list of records or an
\* object) with or without a 'next' link; a link may point at any page.
PageNumbers == 1..MaxPages
\* requests after which the model stops following links (a cycle of links
\* keeps the loop of the code running for ever)
MaxGets == MaxPages + 2
PageRecords(p, k) == [i \in 1..k |-> <<p, i>>]
JsonList(items) == [list |-> TRUE, items |-> items]
JsonObject == [list |-> FALSE, items |-> <<>>]
Replies(p) ==
    {[status |-> "error", body |-> JsonObject, next |-> 0]}
    \cup [status : {"ok"},
          body : {JsonObject} \cup {JsonList(PageRecords(p, k)) : k \in 0..2},
          next : {0} \cup PageNumbers]
Servers == {sv \in [PageNumbers -> UNION {Replies(p) : p \in PageNumbers}] :
               \A p \in PageNumbers : sv[p] \in Replies(p)}

\* (mutation of Extend: the page is put in front of what was accumulated)
Extend_front(final_data, data) == data \o final_data
\* final_data.extend(data)
Extend(final_data, data) == final_data \o data

InitFetch ==
    /\ now = StartTime
    /\ remote_prs = EmptyTable
    /\ remote_issues = EmptyTable
    /\ pull_requests = EmptyTable
    /\ issues = EmptyTable
    /\ reviews = EmptyTable
    /\ comments = EmptyTable
    /\ releases = EmptyTable
    /\ metadata = initialize_metadata(EmptyTable)
    /\ pc = "fetch_api"
    /\ pr_data \in [server : Servers, response : {0}, final_data : {<<>>},
                    gets : {<<>>}, result : {None}]
    /\ last_inc = <<>>
    /\ processed = {}
    /\ updated_pr_numbers = <<>>
    /\ counts = EmptyTable
    /\ requested = {}
    /\ changes = 0
    /\ faults = 0
    /\ quiet = TRUE
    /\ injected = NoFault
    /\ applied = NoUpsert

\* (mutation of Receive: an error hands back what was accumulated)
Receive_keep_partial(p, first) ==
    LET r == pr_data.server[p]
        got == [pr_data EXCEPT !.gets = Append(@, p)]
    IN IF r.status = "error"
       THEN /\ pr_data' = [got EXCEPT !.result = [ok |-> TRUE,
                                               data |-> JsonList(pr_data.final_data)]]
            /\ pc' = "returned"
       ELSE IF ~r.body.list
       THEN /\ pr_data' = [got EXCEPT !.response = p,
                                      !.result = IF first
                                                 THEN [ok |-> TRUE, data |-> r.body]
                                                 ELSE [ok |-> TRUE,
                                                       data |-> JsonList(pr_data.final_data)]]
            /\ pc' = "returned"
       ELSE LET final_data == Extend(pr_data.final_data, r.body.items)
            IN IF r.next # 0
               THEN /\ pr_data' = [got EXCEPT !.response = p,
                                              !.final_data = final_data]
                    /\ pc' = "while"
               ELSE /\ pr_data' = [got EXCEPT !.response = p,
                                              !.final_data = final_data,
                                              !.result = [ok |-> TRUE,
                                                          data |-> JsonList(final_data)]]
                    /\ pc' = "returned"

\* what the loop does with the reply to the request for page p: lines 15-17
\* and 32-38 for the first request, lines 23-30 for a followed link
Receive(p, first) ==
    LET r == pr_data.server[p]
        got == [pr_data EXCEPT !.gets = Append(@, p)]
    IN IF r.status = "error"
       THEN /\ pr_data' = [got EXCEPT !.result = None]
            /\ pc' = "returned"
       ELSE IF ~r.body.list
       THEN /\ pr_data' = [got EXCEPT !.response = p,
                                      !.result = IF first
                                                 THEN [ok |-> TRUE, data |-> r.body]
                                                 ELSE [ok |-> TRUE,
                                                       data |-> JsonList(pr_data.final_data)]]
            /\ pc' = "returned"
       ELSE LET final_data == Extend(pr_data.final_data, r.body.items)
            IN IF r.next # 0
               THEN /\ pr_data' = [got EXCEPT !.response = p,
                                              !.final_data = final_data]
                    /\ pc' = "while"
               ELSE /\ pr_data' = [got EXCEPT !.response = p,
                                              !.final_data = final_data,
                                              !.result = [ok |-> TRUE,
                                                          data |-> JsonList(final_data)]]
                    /\ pc' = "returned"

\* the request for the endpoint
fetch_api_first_page ==
    /\ pc = "fetch_api"
    /\ Receive(1, TRUE)
    /\ UNCHANGED <<now, github, tables, metadata, last_inc, processed,
                   updated_pr_numbers, counts, requested, changes, faults, quiet,
                   injected, applied>>

\* one turn of `while 'next' in response.links`
fetch_api_next_page ==
    /\ pc = "while"
    /\ Len(pr_data.gets) < MaxGets
    /\ Receive(pr_data.server[pr_data.response].next, FALSE)
    /\ UNCHANGED <<now, github, tables, metadata, last_inc, processed,
                   updated_pr_numbers, counts, requested, changes, faults, quiet,
                   injected, applied>>

NextFetch == fetch_api_first_page \/ fetch_api_next_page

\* the loop is sequential code: a turn that can be taken is taken
SpecFetch == InitFetch /\ [][NextFetch]_vars /\ WF_vars(NextFetch)

\* ---- runs over a store that holds statistics ----
\* The store as a full sync that returned at StartTime leaves it when only
\* its pull-request requests succeeded: pull request 1 with its statistics,
\* the checkpoints of the pull-request phase and of the run written.
StoredBefore == {1}
InitStats ==
    /\ now = StartTime
    /\ remote_prs \in [StoredBefore -> [updated_at : InitialTimes, state : {"open"},
                                        merged_at : {Null}]]
    /\ remote_issues \in [{IssueNumber} -> [updated_at : InitialTimes]]
    /\ pull_requests =
          [n \in StoredBefore |->
              [id |-> n, updated_at |-> GitHubTime(remote_prs[n].updated_at),
               state |-> "open", merged_at |-> Null, additions |-> "num",
               last_fetched_at |-> IsoFormat(StartTime)]]
    /\ issues = EmptyTable
    /\ reviews = EmptyTable
    /\ comments = EmptyTable
    /\ releases = EmptyTable
    /\ metadata = update_last_sync_time(
                      update_last_sync_time(initialize_metadata(EmptyTable),
                                            "pr", StartTime),
                      "full", StartTime)
    /\ pc = "idle"
    /\ last_inc = <<>>
    /\ pr_data = None
    /\ processed = {}
    /\ updated_pr_numbers = <<>>
    /\ counts = EmptyTable
    /\ requested = {}
    /\ changes = 0
    /\ faults = 0
    /\ quiet = TRUE
    /\ injected = NoFault
    /\ applied = NoUpsert

\* a run started after the run before it has returned
sync_all_data_after_return == pc = "idle" /\ run_full
sync_incremental_after_return == pc = "idle" /\ run_incremental

NextStats ==
    \/ Tick
    \/ \E n \in PRNumbers : RemotePullRequestChange(n)
    \/ sync_all_data_after_return
    \/ fetch_and_store_pull_requests
    \/ fetch_and_store_issues
    \/ fetch_and_store_reviews_for_all_prs
    \/ fetch_and_store_comments
    \/ fetch_and_store_releases
    \/ fetch_add_del_data
    \/ sync_all_data_return
    \/ sync_incremental_after_return
    \/ fetch_and_store_pull_requests_since
    \/ sync_incremental_touched
    \/ fetch_and_store_issues_since
    \/ fetch_add_del_for_prs
    \/ sync_incremental_return

SpecStats == InitStats /\ [][NextStats]_vars

\* ---- C1 ----
\* C1: when fetch_and_store_pull_requests_since has returned, the records it
\* handed to upsert_pull_request are exactly the records of the fetched feed
\* whose updated_at string is greater than the cutoff string; none whose
\* updated_at is less than or equal to the cutoff was handed over.
NewerThan(feed, cutoff) ==
    {feed[i].number : i \in {j \in 1..Len(feed) : StrGt(feed[j].updated_at, cutoff)}}
NotNewerThan(feed, cutoff) ==
    {feed[i].number : i \in {j \in 1..Len(feed) : StrLeq(feed[j].updated_at, cutoff)}}
FullSyncCompleted == get_last_sync_time(metadata, "full") # IsoFormat(SeedTime)
\* every pull request of the remote is stored with its latest updated_at
AllStored ==
    \A n \in DOMAIN remote_prs :
        /\ n \in DOMAIN pull_requests
        /\ pull_requests[n].updated_at = GitHubTime(remote_prs[n].updated_at)
IncrementalReturned == pc = "idle" /\ "additions_deletions_updated" \in DOMAIN counts
\* C2: no data is missed: when no request, upsert or normalisation has ever
\* failed, a full sync has completed, and the remote's pull requests did not
\* change while an incremental sync ran, then on the return of that incremental
\* sync every remote pull request is stored with its latest updated_at (also
\* when it changed earlier, while another run was in progress).
C2_ConvergesNoMiss ==
    (IncrementalReturned /\ quiet /\ faults = 0 /\ FullSyncCompleted) => AllStored

\* ---- C3 ----
\* C3: when an incremental sync that follows a completed full sync has computed
\* its cutoff, every remote pull request whose updated_at is not later than the
\* cutoff is in the store with that updated_at.
C3_CutoffKnownSynced ==
    (pc = "inc_prs" /\ FullSyncCompleted) =>
        \A n \in DOMAIN remote_prs :
            StrLeq(GitHubTime(remote_prs[n].updated_at), last_inc) =>
                /\ n \in DOMAIN pull_requests
                /\ pull_requests[n].updated_at = GitHubTime(remote_prs[n].updated_at)

\* ---- C4 ----
CheckpointKeys ==
    {"last_full_sync", "last_incremental_sync", "last_pr_sync", "last_issue_sync"}
\* C4: no step of a full or incremental run decreases a stored sync checkpoint
\* or removes it; a checkpoint that a step changes holds the current time after
\* the step.
C4_CheckpointsMonotonic ==
    [][\A k \in CheckpointKeys \cap DOMAIN metadata :
          /\ k \in DOMAIN metadata'
          /\ StrLeq(metadata[k], metadata'[k])
          /\ metadata'[k] # metadata[k] => metadata'[k] = IsoFormat(now)]_vars
C4_Witness ==
    /\ "last_incremental_sync" \in DOMAIN metadata
    /\ StrGt(metadata["last_incremental_sync"], metadata["last_full_sync"])
    /\ StrGt(metadata["last_full_sync"], metadata["last_pr_sync"])
    /\ StrGt(metadata["last_pr_sync"], IsoFormat(SeedTime))


\* ---- C5 ----
\* the table the caller of the store works on, and the natural key of the
\* record of its last call
StoreTable ==
    CASE pc = "upsert_pull_request" -> pull_requests
      [] pc = "upsert_issue" -> issues
      [] pc = "upsert_review" -> reviews
      [] pc = "upsert_comment" -> comments
      [] pc = "upsert_release" -> releases
StoreKey ==
    LET rec == applied.rec[1]
    IN CASE pc \in {"upsert_pull_request", "upsert_issue"} -> rec.number
         [] pc \in {"upsert_review", "upsert_comment"} -> rec.id
         [] pc = "upsert_release" -> rec.tag_name
AppliedTwice == pc \in StoreKinds /\ applied.streak >= 2

C6_TouchedFromSamePass ==
    (pc = "inc_issues" /\ faults = 0) => Range(updated_pr_numbers) = processed

\* ---- C7 ----
\* C7: when the statistics step of an incremental sync has returned, the run
\* has requested, for every pull request of the touched list, its detail
\* (pulls/{number}) and its reviews (pulls/{number}/reviews).
C7_TouchedStatsAndReviews ==
    pc = "inc_return" =>
        \A n \in Range(updated_pr_numbers) :
            <<"pulls", n>> \in requested /\ <<"reviews", n>> \in requested


\* ---- C8 ----
\* the phases that fetch one list: position, key of the count, next position
ListPhases ==
    {<<"full_prs", "pull_requests", "full_issues">>,
     <<"full_issues", "issues", "full_reviews">>,
     <<"full_comments", "comments", "full_releases">>,
     <<"full_releases", "releases", "full_stats">>,
     <<"inc_prs", "pull_requests", "inc_touched">>,
     <<"inc_issues", "issues", "inc_stats">>}
\* the phases that fetch once per pull request, and the numbers they ask for
PerPRPhases ==
    {<<"full_reviews", "reviews", "full_comments">>,
     <<"full_stats", "additions_deletions_fetched", "full_return">>,
     <<"inc_stats", "additions_deletions_updated", "inc_return">>}
Asked ==
    IF pc = "inc_stats" THEN Range(updated_pr_numbers) ELSE DOMAIN pull_requests
FullKeys == {"pull_requests", "issues", "reviews", "comments", "releases",
             "additions_deletions_fetched"}
IncrementalKeys == {"pull_requests", "issues", "additions_deletions_updated"}

C9_MalformedRecordSkipped == injected.bad # {} => pc # "raised"

\* ---- C10 ----
\* C10: when the pull-request phase of a full or incremental sync has fetched
\* its batch and returns, every record of the batch whose upsert did not fail
\* is stored by this phase (also the records that follow a failed one), the
\* rows of the failed ones are as they were, and the count returned is the
\* number of records whose upsert succeeded.
BatchStored(batch) ==
    LET failed == injected'.fail \cap batch
    IN /\ counts'["pull_requests"] = Cardinality(batch \ failed)
       /\ \A n \in batch \ failed :
            /\ n \in DOMAIN pull_requests'
            /\ pull_requests'[n].last_fetched_at = IsoFormat(now)
            /\ pull_requests'[n].updated_at = GitHubTime(remote_prs[n].updated_at)
       /\ \A n \in failed : ReadBack(pull_requests', n) = ReadBack(pull_requests, n)
C10_FailedUpsertSkipped ==
    [][/\ (pc = "full_prs" /\ pc' = "full_issues" /\ injected'.ok) =>
            BatchStored(DOMAIN remote_prs)
       /\ (pc = "inc_prs" /\ pc' = "inc_touched" /\ injected'.ok) =>
            BatchStored(NewerThan(PullsFeed(remote_prs, {}), last_inc))
      ]_vars
C10_Witness ==
    /\ pc = "full_issues"
    /\ injected.ok
    /\ \E n \in injected.fail, m \in DOMAIN pull_requests :
          /\ n \in DOMAIN remote_prs
          /\ n \notin DOMAIN pull_requests
          /\ remote_prs[n].updated_at > remote_prs[m].updated_at
          /\ pull_requests[m].last_fetched_at = IsoFormat(now)
    /\ counts["pull_requests"] = 1

\* ---- C11 ----
\* the cutoff with the sentinel in the place of a value that does not parse
CutoffOrSentinel(meta) ==
    LET Read(sync_type) ==
            LET raw == get_last_sync_time(meta, sync_type)
            IN IF raw # <<>> /\ Parsable(raw) THEN FromIsoFormat(raw) ELSE DefaultTime
    IN IsoFormat(Max(Read("incremental"), Read("full")))

\* C11: an incremental sync that finds a stored last_incremental_sync or
\* last_full_sync that is not a parsable timestamp takes the distant-past
\* sentinel in its place and goes on to its first phase; it does not fail.
C11_UnparsableFallsBack ==
    [][run_incremental =>
          (pc' = "inc_prs" /\ last_inc' = CutoffOrSentinel(metadata'))]_vars

\* ---- C12 ----
\* C12: the step that ends an incremental sync run sets last_incremental_sync
\* to the wall-clock time of that moment, whatever the run's fetches returned.
C12_IncrementalCheckpointAtEnd ==
    [][(pc = "inc_return" /\ pc' = "idle") =>
          get_last_sync_time(metadata', "incremental") = IsoFormat(now)]_vars
\* an incremental run has returned after a failure that left a pull request
\* changed on the remote out of the store
C12_Witness ==
    /\ IncrementalReturned
    /\ faults >= 1
    /\ get_last_sync_time(metadata, "incremental") = IsoFormat(now)
    /\ get_last_sync_time(metadata, "full") = IsoFormat(SeedTime)
    /\ counts["pull_requests"] = 0
    /\ \E n \in DOMAIN remote_prs :
          n \notin DOMAIN pull_requests /\ remote_prs[n].updated_at >= StartTime

\* ---- C13 ----
\* C13: last_full_sync is written only by the last step of a full sync and
\* last_incremental_sync only by the last step of an incremental sync: a run
\* abandoned before that step (an uncaught error, a killed process) leaves
\* both as they were, and the incremental run started next takes its cutoff
\* from those values.
C13_CheckpointAfterWorkDone ==
    [][/\ get_last_sync_time(metadata', "full") # get_last_sync_time(metadata, "full")
            => (pc = "full_return" /\ pc' = "idle")
       /\ get_last_sync_time(metadata', "incremental")
             # get_last_sync_time(metadata, "incremental")
            => (pc = "inc_return" /\ pc' = "idle")
       /\ (pc \in MidRun /\ pc' \in {"raised", "crashed"}) =>
            Cutoff(metadata') = Cutoff(metadata)
       /\ (run_incremental /\ pc \in {"raised", "crashed"}) =>
            last_inc' = Cutoff(metadata)
      ]_vars
\* a full sync was abandoned after its pull-request phase had stored rows and
\* moved last_pr_sync; the next incremental run starts from the old cutoff
C13_Witness ==
    /\ pc = "inc_prs"
    /\ last_inc = IsoFormat(SeedTime)
    /\ pull_requests # EmptyTable
    /\ StrGt(get_last_sync_time(metadata, "pr"), IsoFormat(SeedTime))
    /\ get_last_sync_time(metadata, "full") = IsoFormat(SeedTime)
    /\ get_last_sync_time(metadata, "incremental") = <<>>

C15_MergedStateStored ==
    \A n \in DOMAIN pull_requests :
        pull_requests[n].merged_at # Null => pull_requests[n].state = "merged"

\* a merged pull request the remote reports as closed is stored, by a full
\* run and by an incremental run that went on to refresh its statistics
C15_Witness ==
    /\ pc = "inc_return"
    /\ \E n \in DOMAIN pull_requests :
        /\ remote_prs[n].state = "closed"
        /\ pull_requests[n].merged_at # Null
        /\ pull_requests[n].state = "merged"
        /\ pull_requests[n].additions = "num"

\* C16: after any sequence of sync runs, every stored comment has exactly one
\* of issue_number and pr_number non-null (0 stands for NULL).
C16_CommentXor ==
    \A c \in DOMAIN comments :
        (comments[c].issue_number = 0) # (comments[c].pr_number = 0)

\* a comment on a pull request and a comment on an issue are both stored
C16_Witness ==
    /\ \E c \in DOMAIN comments : comments[c].pr_number # 0
    /\ \E c \in DOMAIN comments : comments[c].issue_number # 0

\* ---- C17 ----
\* the records of the remote whose updated_at is the instant of the cutoff
AtCutoff(remote) ==
    {n \in DOMAIN remote : remote[n].updated_at = FromIsoFormat(last_inc)}
\* C17: an incremental sync handles a pull request or issue whose updated_at
\* is exactly the cutoff instant as already synced: its step 1 does not hand
\* the pull request to the store, the touched list does not get its number,
\* and the issue step leaves the stored issue as it is.
C17_BoundaryAlreadySynced ==
    [][/\ (fetch_and_store_pull_requests_since /\ injected' = NoFault)
            => processed' \cap AtCutoff(remote_prs) = {}
       /\ (sync_incremental_touched /\ injected' = NoFault)
            => Range(updated_pr_numbers') \cap AtCutoff(remote_prs) = {}
       /\ (fetch_and_store_issues_since /\ injected' = NoFault)
            => \A n \in AtCutoff(remote_issues) :
                  /\ n \in DOMAIN issues' => n \in DOMAIN issues
                  /\ n \in DOMAIN issues => issues'[n] = issues[n]]_vars

\* ---- C18 ----
\* C18: when step 1 of an incremental sync has fetched the pull-request feed
\* without a failure, it has requested no page of the feed after the page
\* that holds the first record whose updated_at is not greater than the
\* cutoff.
C18_EarlyStopBoundsPages ==
    (pc = "inc_touched" /\ injected = NoFault /\ ~Falsy(pr_data)) =>
        \A i \in 1..Len(pr_data.data) :
            StrLeq(pr_data.data[i].updated_at, last_inc) =>
                \A r \in requested : r[1] = "pulls?" => r[2] <= PageOf(i)

\* ---- C19 ----
\* C19: when the statistics step of an incremental sync has returned, every
\* per-pull-request request the run issued (detail or reviews) is for a
\* number of its touched list, and none is for a stored pull request whose
\* updated_at is not later than the cutoff.
C19_FanOutOnlyTouched ==
    pc = "inc_return" =>
        /\ \A r \in requested :
              r[1] \in {"pulls", "reviews"} => r[2] \in Range(updated_pr_numbers)
        /\ \A n \in (DOMAIN pull_requests) \cap (DOMAIN remote_prs) :
              (/\ pull_requests[n].updated_at = GitHubTime(remote_prs[n].updated_at)
               /\ remote_prs[n].updated_at <= FromIsoFormat(last_inc))
              => (<<"pulls", n>> \notin requested /\ <<"reviews", n>> \notin requested)

\* ---- C20 ----
\* C20: after any sequence of full and incremental sync runs, no row of the
\* issues table comes from a record of the remote that carries the
\* pull-request marker (the tracker items that are pull requests).
C20_NoPullRequestInIssues ==
    \A n \in DOMAIN issues : n \notin DOMAIN remote_prs

\* an incremental run has stored the issue from a feed that also held a
\* pull request, and pull requests are stored
C20_Witness ==
    /\ pc = "inc_stats"
    /\ "issues" \in DOMAIN counts /\ counts["issues"] = 1
    /\ IssueNumber \in DOMAIN issues
    /\ DOMAIN pull_requests # {}
    /\ \E n \in DOMAIN remote_prs :
          remote_prs[n].updated_at >= FromIsoFormat(last_inc)

\* ---- C21 ----
\* the parent number of a stored comment (the one column that is not NULL)
ParentOf(row) == Max(row.issue_number, row.pr_number)
PhaseCheckpointWritten(key) ==
    /\ key \in DOMAIN metadata'
    /\ metadata'[key] = IsoFormat(now)
    /\ key \in DOMAIN metadata => StrLeq(metadata[key], metadata'[key])
\* C22: when the pull-request phase (resp. the issue phase) of a full or an
\* incremental run completes without a failure, last_pr_sync (resp.
\* last_issue_sync) holds the time of completion and is not less than the
\* value it had before.
C22_PhaseCheckpointWritten ==
    [][/\ ((fetch_and_store_pull_requests \/ fetch_and_store_pull_requests_since)
            /\ injected' = NoFault /\ pc' # "raised")
           => PhaseCheckpointWritten("last_pr_sync")
       /\ ((fetch_and_store_issues \/ fetch_and_store_issues_since)
            /\ injected' = NoFault /\ pc' # "raised")
           => PhaseCheckpointWritten("last_issue_sync")]_vars

\* ---- C23 ----
SyncKinds == {"full", "incremental", "pr", "issue"}
\* a value update_last_sync_time has written (the clock starts at StartTime)
WrittenByRun(value) ==
    value # <<>> /\ Parsable(value) /\ FromIsoFormat(value) >= StartTime
\* the sentinel defaults of the program: the seeded one and default_time
Sentinels == {IsoFormat(SeedTime), IsoFormat(DefaultTime)}
\* C23: in an initialised store, reading the checkpoint of a sync kind (full,
\* incremental, pr, issue) that no run has set returns a sentinel default.
C23_UnsetReadsSentinel ==
    \A sync_type \in SyncKinds :
        ~WrittenByRun(get_last_sync_time(metadata, sync_type))
            => get_last_sync_time(metadata, sync_type) \in Sentinels

\* ---- C24 ----
\* C24: the store initialisation that every start of a run performs on the
\* store it finds leaves every stored record and every existing checkpoint
\* and metadata value as it is; a row it adds is a missing default row.
C24_InitializationIdempotent ==
    [][(run_full \/ run_incremental) =>
        /\ UNCHANGED tables
        /\ \A k \in DOMAIN metadata :
              k \in DOMAIN metadata' /\ metadata'[k] = metadata[k]
        /\ \A k \in (DOMAIN metadata') \ (DOMAIN metadata) :
              k \in DOMAIN DefaultMetadata /\ metadata'[k] = DefaultMetadata[k]]_vars

\* a run has just started on a store that holds records and checkpoints
\* which earlier runs wrote
C24_Witness ==
    /\ pc \in {"full_prs", "inc_prs"}
    /\ pull_requests # EmptyTable
    /\ issues # EmptyTable
    /\ WrittenByRun(get_last_sync_time(metadata, "full"))
    /\ WrittenByRun(get_last_sync_time(metadata, "pr"))
    /\ get_metadata(metadata, "total_prs_tracked") # Str(0)

\* ---- C25 ----
\* C25: with no credential configured, constructing the sync engine raises:
\* the run ends there, no request has been issued, no record is written and
\* no sync checkpoint is written or changed; nothing is fetched or written
\* afterwards until another run is started.
C25_NoCredentialNoWork ==
    [][/\ pipeline_init_raises => (pc' = "raised" /\ requested' = {})
       /\ (pipeline_init_raises \/ (pc = "raised" /\ pc' = "raised")) =>
            /\ requested' \subseteq requested
            /\ UNCHANGED tables
            /\ \A k \in CheckpointKeys :
                  /\ k \in DOMAIN metadata' <=> k \in DOMAIN metadata
                  /\ k \in DOMAIN metadata => metadata'[k] = metadata[k]]_vars

\* after a run that stored pull requests, a run was started without a
\* credential and has raised in the constructor
C25_Witness ==
    /\ pc = "raised"
    /\ ~CutoffRaises(metadata)
    /\ injected = NoFault
    /\ counts = EmptyTable
    /\ pull_requests # EmptyTable
    /\ WrittenByRun(get_last_sync_time(metadata, "incremental"))

\* ---- C26 ----
PRTypes == {"bugfix", "feature", "docs", "maintenance"}
IssueTypes == {"bug", "feature", "question", "documentation"}
Priorities == {"critical", "high", "medium", "low"}
\* C26: for every title and label list, classify_pr_type, classify_issue_type
\* and get_priority_from_labels return a non-empty category, and they return
\* feature, question and medium when no label and no title keyword of theirs
\* matches.
C26_ClassificationTotal ==
    pc = "classified" =>
        LET rec == pr_data.data[1]
            row == applied.rec[1]
        IN /\ row.pr_type # "" /\ row.pr_type \in PRTypes
           /\ row.issue_type # "" /\ row.issue_type \in IssueTypes
           /\ row.priority # "" /\ row.priority \in Priorities
           /\ (MatchLabels(PRTypeByLabel, rec.labels) = {}
               /\ MatchTitle(PRTypeByTitle, rec.title) = {}) => row.pr_type = "feature"
           /\ (MatchLabels(IssueTypeByLabel, rec.labels) = {}
               /\ MatchTitle(IssueTypeByTitle, rec.title) = {})
                 => row.issue_type = "question"
           /\ MatchLabels(PriorityByLabel, rec.labels) = {} => row.priority = "medium"

\* a record whose title and labels match nothing got the three defaults
C26_Witness ==
    /\ pc = "classified"
    /\ pr_data.data[1].title = <<"x", "y", "z">>
    /\ pr_data.data[1].labels = {<<"w", "o", "n", "t", "f", "i", "x">>}
    /\ applied.rec[1] = [pr_type |-> "feature", issue_type |-> "question",
                         priority |-> "medium"]

\* ---- C27 ----
\* the text of a field, a null counting as the empty text
TextOrEmpty(field) == IF field.null THEN <<>> ELSE field.text
\* C27: release normalisation sets is_breaking to true exactly when
\* "breaking" is a substring of the lower-cased name followed by the
\* lower-cased body of the release.
C27_IsBreakingSubstring ==
    pc \in {"processed", "raised"} =>
        LET release == pr_data.data[1]
        IN /\ pc = "processed"
           /\ applied.rec[1].is_breaking =
                 Contains(Lower(TextOrEmpty(release.name))
                            \o Lower(TextOrEmpty(release.body)),
                          <<"b", "r", "e", "a", "k", "i", "n", "g">>)

\* ---- C28 ----
\* the stored checkpoint of a kind, the distant-past sentinel if there is none
StoredOrSentinel(sync_type) ==
    IF SyncKey(sync_type) \in DOMAIN metadata THEN metadata[SyncKey(sync_type)]
    ELSE IsoFormat(DefaultTime)
\* C28: the cutoff an incremental sync works with is the later of the stored
\* last_incremental_sync and last_full_sync, a checkpoint that does not exist
\* counting as the distant-past sentinel.
C28_CutoffIsLaterCheckpoint ==
    pc = "inc_prs" =>
        last_inc = IF StrLeq(StoredOrSentinel("incremental"), StoredOrSentinel("full"))
                   THEN StoredOrSentinel("full")
                   ELSE StoredOrSentinel("incremental")

\* an incremental sync has started on a store whose full-sync checkpoint is
\* later than its incremental checkpoint
C28_Witness ==
    /\ pc = "inc_prs"
    /\ "last_incremental_sync" \in DOMAIN metadata
    /\ StrGt(metadata["last_full_sync"], metadata["last_incremental_sync"])
    /\ last_inc = metadata["last_full_sync"]

\* ---- C29 ----
FullOrder == <<"full_prs", "full_issues", "full_reviews", "full_comments",
               "full_releases", "full_stats", "full_return">>
\* the per-pull-request requests of one endpoint among the given requests
PerPR(endpoint, reqs) == {r \in reqs : r[1] = endpoint}
\* C29: a full sync runs its phases in the order pull requests, issues,
\* reviews, comments, releases, per-PR statistics; it issues no review
\* request before the reviews phase and no per-PR detail request before the
\* statistics phase, both after the pull-request phase; and a phase that
\* returns has issued these requests exactly for the numbers of the pull
\* requests in the store.
C29_FullSyncPhaseOrder ==
    [][/\ run_full => (pc' = "full_prs" /\ requested' = {})
       /\ \A i \in 1..(Len(FullOrder) - 1) :
            (pc = FullOrder[i] /\ pc' \notin {pc, "raised", "crashed"})
                => pc' = FullOrder[i + 1]
       /\ pc' \in {"full_prs", "full_issues", "full_reviews"}
            => PerPR("reviews", requested') = {}
       /\ pc' \in {"full_prs", "full_issues", "full_reviews", "full_comments",
                   "full_releases", "full_stats"}
            => PerPR("pulls", requested') = {}
       /\ (pc = "full_reviews" /\ pc' = "full_comments")
            => PerPR("reviews", requested')
                 = {<<"reviews", n>> : n \in DOMAIN pull_requests}
       /\ (pc = "full_stats" /\ pc' = "full_return")
            => PerPR("pulls", requested')
                 = {<<"pulls", n>> : n \in DOMAIN pull_requests}]_vars

\* a full sync has run all its phases with two pull requests in the store,
\* one of them stored by an earlier run
C29_Witness ==
    /\ pc = "full_return"
    /\ Cardinality(DOMAIN pull_requests) = 2
    /\ PerPR("reviews", requested) = {<<"reviews", n>> : n \in DOMAIN pull_requests}
    /\ PerPR("pulls", requested) = {<<"pulls", n>> : n \in DOMAIN pull_requests}
    /\ \E n \in DOMAIN pull_requests :
          FromIsoFormat(pull_requests[n].last_fetched_at) < now

\* ---- C30 ----
RECURSIVE Walk(_, _, _)
\* the pages reached from page p through next links, in order, up to the
\* first one seen before
Walk(server, p, seen) ==
    IF p = 0 \/ p \in seen THEN <<>>
    ELSE <<p>> \o Walk(server, server[p].next, seen \cup {p})
\* the chain of next links from the first page ends
FiniteChain(server) ==
    LET chain == Walk(server, 1, {})
    IN server[chain[Len(chain)]].next = 0
RECURSIVE Concatenation(_, _)
Concatenation(server, chain) ==
    IF chain = <<>> THEN <<>>
    ELSE server[Head(chain)].body.items \o Concatenation(server, Tail(chain))
\* every request of the chain succeeds with a list
ListEndpoint(server) ==
    \A i \in 1..Len(Walk(server, 1, {})) :
        LET r == server[Walk(server, 1, {})[i]]
        IN r.status = "ok" /\ r.body.list
\* C30: when every page request succeeds with a list and the chain of next
\* links from the first page is finite, fetch_api returns, and what it
\* returns is the concatenation, in server order, of the records of the
\* pages of the chain, each page having been requested exactly once.
C30_AllPagesConcatenated ==
    /\ [](( /\ pc = "returned"
            /\ FiniteChain(pr_data.server)
            /\ ListEndpoint(pr_data.server))
          => LET chain == Walk(pr_data.server, 1, {})
             IN /\ pr_data.result = [ok |-> TRUE,
                     data |-> JsonList(Concatenation(pr_data.server, chain))]
                /\ pr_data.gets = chain)
    /\ ((FiniteChain(pr_data.server) /\ ListEndpoint(pr_data.server))
            ~> pc = "returned")

\* a fetch over a chain of two pages, both with records, has returned
C30_Witness ==
    /\ pc = "returned"
    /\ FiniteChain(pr_data.server)
    /\ ListEndpoint(pr_data.server)
    /\ Len(pr_data.gets) >= 2
    /\ \A i \in 1..Len(pr_data.gets) :
          pr_data.server[pr_data.gets[i]].body.items # <<>>
    /\ pr_data.result.ok
    /\ Len(pr_data.result.data.items) >= 3

\* ---- C31 ----
\* C31: an error reply to any request of a fetch, the first or a later one,
\* ends the fetch with None, whatever was accumulated before, and is the
\* last request of the fetch: the failed request is not issued again.
C31_ErrorFailsWholeFetch ==
    \A i \in 1..Len(pr_data.gets) :
        pr_data.server[pr_data.gets[i]].status = "error" =>
            /\ i = Len(pr_data.gets)
            /\ pc = "returned"
            /\ pr_data.result = None

\* a later page failed after records had been accumulated
C31_Witness ==
    /\ pc = "returned"
    /\ Len(pr_data.gets) >= 2
    /\ pr_data.server[pr_data.gets[Len(pr_data.gets)]].status = "error"
    /\ pr_data.final_data # <<>>
    /\ pr_data.result = None

\* ---- C32 ----
\* the columns of a stored pull request other than the statistics and the
\* fetch time
SameButStats(old, new) ==
    /\ new.id = old.id
    /\ new.updated_at = old.updated_at
    /\ new.state = old.state
    /\ new.merged_at = old.merged_at
\* the record built from the detail payload of pull request n, as stored at t
FreshFromDetail(remote, n, t) ==
    [id |-> n, updated_at |-> GitHubTime(remote[n].updated_at),
     state |-> IF remote[n].merged_at # Null THEN "merged" ELSE remote[n].state,
     merged_at |-> remote[n].merged_at, additions |-> "num",
     last_fetched_at |-> IsoFormat(t)]
\* C32: a statistics phase (of a full or of an incremental run) keeps every
\* stored pull request; a row whose detail it did not request is unchanged;
\* a row it refreshed differs from before in its statistics and fetch time
\* only; and a row that was not stored before comes from the incremental
\* phase and is the record built from the detail payload.
C32_StatsRefreshFrame ==
    [][(pc \in {"full_stats", "inc_stats"} /\ pc' # pc) =>
        /\ \A n \in DOMAIN pull_requests :
              /\ n \in DOMAIN pull_requests'
              /\ SameButStats(pull_requests[n], pull_requests'[n])
              /\ <<"pulls", n>> \notin requested' => pull_requests'[n] = pull_requests[n]
              /\ pull_requests'[n] # pull_requests[n] =>
                    /\ pull_requests'[n].additions = "num"
                    /\ pull_requests'[n].last_fetched_at = IsoFormat(now)
        /\ \A n \in DOMAIN pull_requests' \ DOMAIN pull_requests :
              /\ pc = "inc_stats"
              /\ pull_requests'[n] = FreshFromDetail(remote_prs, n, now)]_vars

\* a stored pull request was refreshed after the remote had changed it, and
\* another row of the table was not touched
C32_Witness ==
    /\ pc = "inc_return"
    /\ \E n \in DOMAIN pull_requests :
          /\ n \in DOMAIN remote_prs
          /\ pull_requests[n].additions = "num"
          /\ pull_requests[n].last_fetched_at = IsoFormat(now)
          /\ pull_requests[n].updated_at # GitHubTime(remote_prs[n].updated_at)
    /\ \E n \in DOMAIN pull_requests : <<"pulls", n>> \notin requested

\* ---- C33 ----
\* every row of the table before the call whose natural key is not k is in
\* the table after it, unchanged, and the table has not fewer rows
KeepsOtherRows(old, new, k) ==
    /\ \A x \in DOMAIN old \ {k} : x \in DOMAIN new /\ new[x] = old[x]
    /\ Cardinality(DOMAIN new) >= Cardinality(DOMAIN old)
\* C33: a call of upsert_pull_request, upsert_issue or upsert_release with
\* record R leaves every stored row whose natural key (number, number,
\* tag_name) is not R's as it was, and does not reduce the number of rows.
C33_UpsertKeepsOtherRows ==
    [][applied'.calls = applied.calls + 1 =>
        LET rec == applied'.rec[1]
        IN /\ pc = "upsert_pull_request" =>
                 KeepsOtherRows(pull_requests, pull_requests', rec.number)
           /\ pc = "upsert_issue" => KeepsOtherRows(issues, issues', rec.number)
           /\ pc = "upsert_release" =>
                 KeepsOtherRows(releases, releases', rec.tag_name)]_vars

\* ---- C34 ----
\* pull request n is stored with its statistics
HasStatistics(n) ==
    n \in DOMAIN pull_requests /\ pull_requests[n].additions # "null"
\* C34: in the runs that follow a full sync which stored the pull requests
\* StoredBefore with their statistics, each run starting after the one
\* before it has returned: whenever a run has returned, every one of these
\* pull requests is stored with statistics.
C34_StatisticsNeverLost ==
    pc = "idle" => \A n \in StoredBefore : HasStatistics(n)

\* ---- C35 ----
\* C35: every stored review's pr_number is the number of a stored pull
\* request.
C35_ReviewsReferToStoredPRs ==
    \A r \in DOMAIN reviews : reviews[r].pr_number \in DOMAIN pull_requests

\* a second run has stored reviews again, for two stored pull requests
C35_Witness ==
    /\ pc = "idle"
    /\ Cardinality(DOMAIN pull_requests) = 2
    /\ \A n \in DOMAIN pull_requests :
          \E r \in DOMAIN reviews : reviews[r].pr_number = n

====
